---- MODULE Spec2Model ----
(***************************************************************************)
(* A model of the mm0-rs environment (elab/environment.rs) and of the MMB  *)
(* exporter (export_mmb.rs).                                               *)
(*                                                                         *)
(* Conventions.  Ids (SortID, TermID, ThmID, AtomID) are the 0-based       *)
(* integers of the source; the tables are TLA+ sequences, so the record of *)
(* id i is table[i+1].  A HashMap is a function whose DOMAIN is its key    *)
(* set.  Option<T> is a sequence of length at most one: <<>> is None and   *)
(* <<x>> is Some(x).  Where the source iterates over a HashMap the order   *)
(* of iteration is an input of the operator, chosen by the action.         *)
(***************************************************************************)
EXTENDS Integers, Sequences, FiniteSets, TLC

\* env: the (primary) Environment; last: the most recent call, its arguments,
\* the environment before it and what it returned; accepted: the direct
\* coercions add_coe has accepted; created: the ids returned for new
\* declarations while every call so far was a successful first declaration;
\* calls: the number of counted calls; ex: the Exporter
VARIABLES env, last, accepted, created, calls, ex

vars == <<env, last, accepted, created, calls, ex>>

-----------------------------------------------------------------------------
(* Generic helpers: HashMap, Option, permutations                          *)

EmptyMap == [x \in {} |-> 0]

Insert(m, k, v) == [x \in (DOMAIN m) \cup {k} |-> IF x = k THEN v ELSE m[x]]

None == <<>>

Some(x) == <<x>>

Range(f) == {f[x] : x \in DOMAIN f}

\* all the orders in which the elements of the finite set S can be visited
Orders(S) == {o \in [1..Cardinality(S) -> S] : Range(o) = S}

-----------------------------------------------------------------------------
(* Identifier widths                                                       *)

U8Max == 255

\* the limit on the number of sorts in Exporter::run
MAX_SORTS == 128

\* n fits a u32: n < 2^32, written with 2^16 because TLC's integers
\* are narrower than 2^32
FitsU32(n) == n \div 65536 < 65536

\* Modifiers::PROVABLE, a bit of the sort's modifier byte
PROVABLE == 4

ModContains(mods, bit) == (mods \div bit) % 2 = 1

-----------------------------------------------------------------------------
(* Environment and ParserEnv, as constructed by Default                    *)

DefaultParserEnv ==
  [delims_l |-> {}, delims_r |-> {},
   consts |-> EmptyMap, prec_assoc |-> EmptyMap,
   prefixes |-> EmptyMap, infixes |-> EmptyMap,
   coes |-> EmptyMap, coe_prov |-> EmptyMap]

DefaultEnvironment ==
  [sort_keys |-> EmptyMap, sorts |-> <<>>,
   pe |-> DefaultParserEnv,
   decl_keys |-> EmptyMap, terms |-> <<>>, thms |-> <<>>,
   atoms |-> EmptyMap, lisp_ctx |-> <<>>,
   stmts |-> <<>>]

StmtSort(s) == [tag |-> "Sort", name |-> s]

StmtDecl(s) == [tag |-> "Decl", name |-> s]

KeyTerm(i) == [tag |-> "Term", id |-> i]

KeyThm(i) == [tag |-> "Thm", id |-> i]

-----------------------------------------------------------------------------
(* Declarations: types, expression and proof DAGs, terms, theorems         *)

TyBound(s) == [tag |-> "Bound", sort |-> s]

TyReg(s, deps) == [tag |-> "Reg", sort |-> s, deps |-> deps]

ERef(i) == [tag |-> "Ref", i |-> i]

EDummy(name, s) == [tag |-> "Dummy", name |-> name, sort |-> s]

EApp(t, es) == [tag |-> "App", t |-> t, es |-> es]

Expr(heap, head) == [heap |-> heap, head |-> head]

PRef(i) == [tag |-> "Ref", i |-> i]

PTerm(term, args) == [tag |-> "Term", term |-> term, args |-> args]

PThm(thm, args, hyps, tgt) == [tag |-> "Thm", thm |-> thm, args |-> args, hyps |-> hyps, tgt |-> tgt]

PConv(tgt, proof) == [tag |-> "Conv", tgt |-> tgt, proof |-> proof]

Proof(heap, head) == [heap |-> heap, head |-> head]

Term(span, vis, id, args, ret, val) ==
  [span |-> span, vis |-> vis, id |-> id, args |-> args, ret |-> ret, val |-> val]

Thm(span, vis, id, args, heap, hyps, ret, proof) ==
  [span |-> span, vis |-> vis, id |-> id, args |-> args, heap |-> heap,
   hyps |-> hyps, ret |-> ret, proof |-> proof]

NotaInfo(span, term, nargs, rassoc, lits) ==
  [span |-> span, term |-> term, nargs |-> nargs, rassoc |-> rassoc, lits |-> lits]

-----------------------------------------------------------------------------
(* Remapper and the Remap impls                                            *)

DefaultRemapper == [sort |-> EmptyMap, term |-> EmptyMap, thm |-> EmptyMap]

\* a remapper that leaves sort ids as they are
remap_sort_id_identity(r, s) == s

remap_sort_id(r, s) == IF s \in DOMAIN r.sort THEN r.sort[s] ELSE s

remap_term_id(r, t) == IF t \in DOMAIN r.term THEN r.term[t] ELSE t

remap_thm_id(r, t) == IF t \in DOMAIN r.thm THEN r.thm[t] ELSE t

remap_type(r, ty) ==
  IF ty.tag = "Bound" THEN TyBound(remap_sort_id(r, ty.sort))
  ELSE TyReg(remap_sort_id(r, ty.sort), ty.deps)

\* Vec<(String, Type)>: the String is cloned, the Type remapped
remap_args(r, args) == [i \in 1..Len(args) |-> <<args[i][1], remap_type(r, args[i][2])>>]

RECURSIVE remap_expr_node(_, _)
remap_expr_node(r, n) ==
  IF n.tag = "Ref" THEN ERef(n.i)
  ELSE IF n.tag = "Dummy" THEN EDummy(n.name, remap_sort_id(r, n.sort))
  ELSE EApp(remap_term_id(r, n.t), [i \in 1..Len(n.es) |-> remap_expr_node(r, n.es[i])])

remap_expr_nodes(r, ns) == [i \in 1..Len(ns) |-> remap_expr_node(r, ns[i])]

remap_expr(r, e) == Expr(remap_expr_nodes(r, e.heap), remap_expr_node(r, e.head))

remap_term(r, t) ==
  Term(t.span, t.vis, t.id, remap_args(r, t.args), remap_type(r, t.ret),
       [i \in 1..Len(t.val) |-> remap_expr(r, t.val[i])])

RECURSIVE remap_proof_node(_, _)
remap_proof_node(r, n) ==
  IF n.tag = "Ref" THEN PRef(n.i)
  ELSE IF n.tag = "Term"
  THEN PTerm(remap_term_id(r, n.term), [i \in 1..Len(n.args) |-> remap_proof_node(r, n.args[i])])
  ELSE IF n.tag = "Thm"
  THEN PThm(remap_thm_id(r, n.thm),
            [i \in 1..Len(n.args) |-> remap_proof_node(r, n.args[i])],
            [i \in 1..Len(n.hyps) |-> remap_proof_node(r, n.hyps[i])],
            remap_proof_node(r, n.tgt))
  ELSE PConv(remap_proof_node(r, n.tgt), remap_proof_node(r, n.proof))

remap_proof(r, p) ==
  Proof([i \in 1..Len(p.heap) |-> remap_proof_node(r, p.heap[i])], remap_proof_node(r, p.head))

remap_thm(r, t) ==
  Thm(t.span, t.vis, t.id, remap_args(r, t.args), remap_expr_nodes(r, t.heap),
      remap_expr_nodes(r, t.hyps), remap_expr_node(r, t.ret),
      [i \in 1..Len(t.proof) |-> remap_proof(r, t.proof[i])])

remap_nota_info(r, n) == NotaInfo(n.span, remap_term_id(r, n.term), n.nargs, n.rassoc, n.lits)

-----------------------------------------------------------------------------
(* Coercions                                                               *)

CoeOne(fsp, t) == [tag |-> "One", fsp |-> fsp, t |-> t]

CoeTrans(c1, s, c2) == [tag |-> "Trans", c1 |-> c1, s |-> s, c2 |-> c2]

\* coes[s1][s2] is present
HasCoe(coes, s1, s2) == s1 \in DOMAIN coes /\ s2 \in DOMAIN coes[s1]

\* the keys of coes[s], empty when coes has no entry for s
CoeTargets(coes, s) == IF s \in DOMAIN coes THEN DOMAIN coes[s] ELSE {}

\* the sources sl with coes[sl][s] present
CoeSources(coes, s) == {sl \in DOMAIN coes : s \in DOMAIN coes[sl]}

CoeErr(kind, s1, s2) == [kind |-> kind, s1 |-> s1, s2 |-> s2]

add_coe1(pe, s1, s2, c) ==
  IF s1 = s2
  THEN [pe |-> pe, err |-> Some(CoeErr("cycle", s1, s2))]
  ELSE IF HasCoe(pe.coes, s1, s2)
  THEN [pe |-> pe, err |-> Some(CoeErr("diamond", s1, s2))]
  ELSE [pe |-> [pe EXCEPT !.coes =
                  Insert(@, s1, Insert(IF s1 \in DOMAIN @ THEN @[s1] ELSE EmptyMap, s2, c))],
        err |-> None]

\* the loop "for (sl, sr, c) in todo { self.add_coe1(..)? }"
RECURSIVE add_coe_todo(_, _, _)
add_coe_todo(pe, todo, i) ==
  IF i > Len(todo) THEN [pe |-> pe, err |-> None]
  ELSE LET r == add_coe1(pe, todo[i][1], todo[i][2], todo[i][3])
       IN IF r.err # None THEN r ELSE add_coe_todo(r.pe, todo, i + 1)

\* lo orders the sources of s1, ro the targets of s2 (HashMap iteration)
add_coe_raw(pe, s1, s2, fsp, t, lo, ro) ==
  LET c1 == CoeOne(fsp, t)
      left == [i \in 1..Len(lo) |-> <<lo[i], s2, CoeTrans(pe.coes[lo[i]][s1], s1, c1)>>]
      right == [i \in 1..Len(ro) |-> <<s1, ro[i], CoeTrans(c1, s2, pe.coes[s2][ro[i]])>>]
  IN add_coe_todo(pe, left \o <<(<<s1, s2, c1>>)>> \o right, 1)

\* The loop inserts (s1, s2) into provs for every provable target s2 of s1
\* and fails on the second insert for the same s1, in whichever order the
\* table is visited; provs is local until the final assignment.
update_provs(pe, sorts) ==
  LET provTargets(s1) == {s2 \in DOMAIN pe.coes[s1] : ModContains(sorts[s2 + 1].mods, PROVABLE)}
  IN IF \E s1 \in DOMAIN pe.coes : Cardinality(provTargets(s1)) >= 2
     THEN LET s1 == CHOOSE s \in DOMAIN pe.coes : Cardinality(provTargets(s)) >= 2
          IN [pe |-> pe, err |-> Some(CoeErr("provable diamond", s1, s1))]
     ELSE [pe |-> [pe EXCEPT !.coe_prov =
                     [s1 \in {s \in DOMAIN pe.coes : provTargets(s) # {}} |->
                        CHOOSE s2 \in provTargets(s1) : TRUE]],
           err |-> None]

\* ParserEnv::add_coe
pe_add_coe(pe, sorts, s1, s2, fsp, t, lo, ro) ==
  LET r == add_coe_raw(pe, s1, s2, fsp, t, lo, ro)
  IN IF r.err # None THEN r ELSE update_provs(r.pe, sorts)

-----------------------------------------------------------------------------
(* Environment: declaration admission                                      *)

Sort(name, span, mods) == [name |-> name, span |-> span, mods |-> mods]

AddOk(e, id, built) == [env |-> e, tag |-> "Ok", id |-> Some(id), other |-> None, built |-> built]

AddRedecl(e, id, other) == [env |-> e, tag |-> "Redeclaration", id |-> id, other |-> Some(other), built |-> 0]

AddOverflow(e) == [env |-> e, tag |-> "Overflow", id |-> None, other |-> None, built |-> 0]

\* add_sort that computes the new id after the push
add_sort_id_after_push(e, s, fsp, sd) ==
  IF Len(e.sorts) > U8Max THEN AddOverflow(e)
  ELSE IF s \in DOMAIN e.sort_keys
       THEN LET old_id == e.sort_keys[s]
                sort == e.sorts[old_id + 1]
            IN IF sd = sort.mods THEN AddOk(e, old_id, 0)
               ELSE AddRedecl(e, Some(old_id), sort.span)
       ELSE AddOk([e EXCEPT !.sort_keys = Insert(@, s, Len(e.sorts) + 1),
                            !.sorts = Append(@, Sort(s, fsp, sd)),
                            !.stmts = Append(@, StmtSort(s))],
                  Len(e.sorts) + 1, 0)

add_sort(e, s, fsp, sd) ==
  IF Len(e.sorts) > U8Max THEN AddOverflow(e)
  ELSE LET new_id == Len(e.sorts)
       IN IF s \in DOMAIN e.sort_keys
          THEN LET old_id == e.sort_keys[s]
                   sort == e.sorts[old_id + 1]
               IN IF sd = sort.mods THEN AddOk(e, old_id, 0)
                  ELSE AddRedecl(e, Some(old_id), sort.span)
          ELSE AddOk([e EXCEPT !.sort_keys = Insert(@, s, new_id),
                               !.sorts = Append(@, Sort(s, fsp, sd)),
                               !.stmts = Append(@, StmtSort(s))],
                     new_id, 0)

\* add_term that returns the existing term whatever its span
add_term_any_span(e, s, new, t) ==
  IF ~FitsU32(Len(e.terms)) THEN AddOverflow(e)
  ELSE LET new_id == Len(e.terms)
       IN IF s \in DOMAIN e.decl_keys
          THEN LET k == e.decl_keys[s]
               IN IF k.tag = "Term" THEN AddOk(e, k.id, 0)
                  ELSE AddRedecl(e, None, e.thms[k.id + 1].span)
          ELSE AddOk([e EXCEPT !.decl_keys = Insert(@, s, KeyTerm(new_id)),
                               !.terms = Append(@, t),
                               !.stmts = Append(@, StmtDecl(s))],
                     new_id, 1)

\* t is the value the builder returns; built counts the builder's calls
add_term(e, s, new, t) ==
  IF ~FitsU32(Len(e.terms)) THEN AddOverflow(e)
  ELSE LET new_id == Len(e.terms)
       IN IF s \in DOMAIN e.decl_keys
          THEN LET k == e.decl_keys[s]
               IN IF k.tag = "Term"
                  THEN LET sp == e.terms[k.id + 1].span
                       IN IF sp = new THEN AddOk(e, k.id, 0)
                          ELSE AddRedecl(e, Some(k.id), sp)
                  ELSE AddRedecl(e, None, e.thms[k.id + 1].span)
          ELSE AddOk([e EXCEPT !.decl_keys = Insert(@, s, KeyTerm(new_id)),
                               !.terms = Append(@, t),
                               !.stmts = Append(@, StmtDecl(s))],
                     new_id, 1)

\* add_thm that leaves the new theorem out of the statement trace
add_thm_no_trace(e, s, new, t) ==
  IF ~FitsU32(Len(e.thms)) THEN AddOverflow(e)
  ELSE LET new_id == Len(e.thms)
       IN IF s \in DOMAIN e.decl_keys
          THEN LET k == e.decl_keys[s]
               IN IF k.tag = "Thm"
                  THEN LET sp == e.thms[k.id + 1].span
                       IN IF sp = new THEN AddOk(e, k.id, 0)
                          ELSE AddRedecl(e, Some(k.id), sp)
                  ELSE AddRedecl(e, None, e.terms[k.id + 1].span)
          ELSE AddOk([e EXCEPT !.decl_keys = Insert(@, s, KeyThm(new_id)),
                               !.thms = Append(@, t)],
                     new_id, 1)

add_thm(e, s, new, t) ==
  IF ~FitsU32(Len(e.thms)) THEN AddOverflow(e)
  ELSE LET new_id == Len(e.thms)
       IN IF s \in DOMAIN e.decl_keys
          THEN LET k == e.decl_keys[s]
               IN IF k.tag = "Thm"
                  THEN LET sp == e.thms[k.id + 1].span
                       IN IF sp = new THEN AddOk(e, k.id, 0)
                          ELSE AddRedecl(e, Some(k.id), sp)
                  ELSE AddRedecl(e, None, e.terms[k.id + 1].span)
          ELSE AddOk([e EXCEPT !.decl_keys = Insert(@, s, KeyThm(new_id)),
                               !.thms = Append(@, t),
                               !.stmts = Append(@, StmtDecl(s))],
                     new_id, 1)

\* Environment::add_coe
add_coe(e, s1, s2, fsp, t, lo, ro) ==
  LET r == pe_add_coe(e.pe, e.sorts, s1, s2, fsp, t, lo, ro)
  IN [env |-> [e EXCEPT !.pe = r.pe], err |-> r.err]

-----------------------------------------------------------------------------
(* ParserEnv: constants, precedences, notations                            *)

Incompatible(decl1, decl2) == [decl1 |-> decl1, decl2 |-> decl2]

add_const(pe, tk, sp, p) ==
  IF tk \in DOMAIN pe.consts
  THEN IF pe.consts[tk].prec = p THEN [pe |-> pe, err |-> None]
       ELSE [pe |-> pe, err |-> Some(Incompatible(pe.consts[tk].span, sp))]
  ELSE [pe |-> [pe EXCEPT !.consts = Insert(@, tk, [span |-> sp, prec |-> p])], err |-> None]

add_prec_assoc(pe, p, sp, r) ==
  IF p \in DOMAIN pe.prec_assoc
  THEN IF pe.prec_assoc[p].r = r THEN [pe |-> pe, err |-> None]
       ELSE [pe |-> pe,
             err |-> Some(IF r THEN Incompatible(pe.prec_assoc[p].span, sp)
                          ELSE Incompatible(sp, pe.prec_assoc[p].span))]
  ELSE [pe |-> [pe EXCEPT !.prec_assoc = Insert(@, p, [span |-> sp, r |-> r])], err |-> None]

add_nota_info(m, tk, n) ==
  IF tk \in DOMAIN m
  THEN IF m[tk].span = n.span THEN [m |-> m, err |-> None]
       ELSE [m |-> m, err |-> Some(Incompatible(m[tk].span, n.span))]
  ELSE [m |-> Insert(m, tk, n), err |-> None]

add_prefix(pe, tk, n) ==
  LET r == add_nota_info(pe.prefixes, tk, n)
  IN [pe |-> [pe EXCEPT !.prefixes = r.m], err |-> r.err]

add_infix(pe, tk, n) ==
  LET r == add_nota_info(pe.infixes, tk, n)
  IN [pe |-> [pe EXCEPT !.infixes = r.m], err |-> r.err]

MergeErr(kind, what) == [kind |-> kind, what |-> what]

\* errors.push(e) when the call failed
PushErr(errors, err, kind, what) ==
  IF err = None THEN errors ELSE Append(errors, MergeErr(kind, what))

\* the four loops of ParserEnv::merge over other.consts, other.prec_assoc,
\* other.prefixes and other.infixes; ks is the order the keys are visited in
RECURSIVE merge_consts(_, _, _, _, _)
merge_consts(pe, other, errors, ks, i) ==
  IF i > Len(ks) THEN [pe |-> pe, errors |-> errors]
  ELSE LET c == other.consts[ks[i]]
           r == add_const(pe, ks[i], c.span, c.prec)
       IN merge_consts(r.pe, other, PushErr(errors, r.err, "constant declared with two precedences", ks[i]),
                       ks, i + 1)

RECURSIVE merge_prec_assoc(_, _, _, _, _)
merge_prec_assoc(pe, other, errors, ks, i) ==
  IF i > Len(ks) THEN [pe |-> pe, errors |-> errors]
  ELSE LET c == other.prec_assoc[ks[i]]
           r == add_prec_assoc(pe, ks[i], c.span, c.r)
       IN merge_prec_assoc(r.pe, other, PushErr(errors, r.err, "incompatible associativity", ks[i]),
                           ks, i + 1)

RECURSIVE merge_prefixes(_, _, _, _, _, _)
merge_prefixes(pe, other, rm, errors, ks, i) ==
  IF i > Len(ks) THEN [pe |-> pe, errors |-> errors]
  ELSE LET r == add_prefix(pe, ks[i], remap_nota_info(rm, other.prefixes[ks[i]]))
       IN merge_prefixes(r.pe, other, rm, PushErr(errors, r.err, "constant declared twice", ks[i]),
                         ks, i + 1)

RECURSIVE merge_infixes(_, _, _, _, _, _)
merge_infixes(pe, other, rm, errors, ks, i) ==
  IF i > Len(ks) THEN [pe |-> pe, errors |-> errors]
  ELSE LET r == add_infix(pe, ks[i], remap_nota_info(rm, other.infixes[ks[i]]))
       IN merge_infixes(r.pe, other, rm, PushErr(errors, r.err, "constant declared twice", ks[i]),
                        ks, i + 1)

\* the pairs (s1, s2) with other.coes[s1][s2] a Coe::One
DirectCoes(coes) ==
  {p \in UNION {{<<s1, s2>> : s2 \in DOMAIN coes[s1]} : s1 \in DOMAIN coes} :
     coes[p[1]][p[2]].tag = "One"}

\* every result add_coe_raw can give, over the orders its two loops may take
add_coe_raw_outcomes(pe, s1, s2, fsp, t) ==
  {add_coe_raw(pe, s1, s2, fsp, t, lo, ro) :
     lo \in Orders(CoeSources(pe.coes, s1)), ro \in Orders(CoeTargets(pe.coes, s2))}

\* the coercion loop of ParserEnv::merge: every direct coercion of other is
\* replayed with add_coe_raw under its own endpoints s1, s2 and the remapped
\* term, in any order; todo is the set of pairs not yet visited
RECURSIVE merge_coes_outcomes(_, _, _, _, _)
merge_coes_outcomes(pe, other, rm, errors, todo) ==
  IF todo = {} THEN {[pe |-> pe, errors |-> errors]}
  ELSE UNION {
         UNION {merge_coes_outcomes(r.pe, other, rm, PushErr(errors, r.err, "coercion", p), todo \ {p}) :
                  r \in add_coe_raw_outcomes(pe, p[1], p[2], other.coes[p[1]][p[2]].fsp,
                                             remap_term_id(rm, other.coes[p[1]][p[2]].t))} :
         p \in todo}

\* ParserEnv::merge; ord gives the orders of the four key loops
pe_merge_outcomes(pe, other, rm, sorts, errors, ord) ==
  LET p0 == [pe EXCEPT !.delims_l = @ \cup other.delims_l, !.delims_r = @ \cup other.delims_r]
      p1 == merge_consts(p0, other, errors, ord.consts, 1)
      p2 == merge_prec_assoc(p1.pe, other, p1.errors, ord.prec_assoc, 1)
      p3 == merge_prefixes(p2.pe, other, rm, p2.errors, ord.prefixes, 1)
      p4 == merge_infixes(p3.pe, other, rm, p3.errors, ord.infixes, 1)
  IN {LET u == update_provs(p5.pe, sorts)
      IN [pe |-> u.pe, errors |-> PushErr(p5.errors, u.err, "provable diamond", 0)] :
        p5 \in merge_coes_outcomes(p4.pe, other, rm, p4.errors, DirectCoes(other.coes))}

\* the orders ParserEnv::merge may visit other's tables in
MergeOrders(other) ==
  [consts : Orders(DOMAIN other.consts), prec_assoc : Orders(DOMAIN other.prec_assoc),
   prefixes : Orders(DOMAIN other.prefixes), infixes : Orders(DOMAIN other.infixes)]

-----------------------------------------------------------------------------
(* Atoms and Environment::merge                                            *)

\* LispVal: the undefined value, or a value that mentions one atom
UNDEF == None

get_atom(e, s) ==
  IF s \in DOMAIN e.atoms THEN [env |-> e, id |-> e.atoms[s]]
  ELSE [env |-> [e EXCEPT !.atoms = Insert(@, s, Len(e.lisp_ctx)),
                          !.lisp_ctx = Append(@, [name |-> s, val |-> UNDEF])],
        id |-> Len(e.lisp_ctx)]

\* LispRemapper.atom: one get_atom per entry of other.lisp_ctx, in order
RECURSIVE merge_atoms(_, _, _, _)
merge_atoms(e, other, atom, i) ==
  IF i > Len(other.lisp_ctx) THEN [env |-> e, atom |-> atom]
  ELSE LET r == get_atom(e, other.lisp_ctx[i].name)
       IN merge_atoms(r.env, other, Append(atom, r.id), i + 1)

\* LispVal::remap: atom ids are rewritten through the atom vector
lisp_remap(atom, v) == [i \in 1..Len(v) |-> atom[v[i] + 1]]

RECURSIVE merge_lisp_vals(_, _, _, _)
merge_lisp_vals(e, other, atom, i) ==
  IF i > Len(other.lisp_ctx) THEN e
  ELSE merge_lisp_vals([e EXCEPT !.lisp_ctx[atom[i] + 1].val = lisp_remap(atom, other.lisp_ctx[i].val)],
                       other, atom, i + 1)

MergeState(e, remap, errors, err) == [env |-> e, remap |-> remap, errors |-> errors, err |-> err]

\* a builder that clones the secondary's term without remapping it
merge_term_builder_clone(remap, other, i) == other.terms[i + 1]

\* the builders merge hands to add_term and add_thm: || o.remap(&mut remap)
merge_term_builder(remap, other, i) == remap_term(remap, other.terms[i + 1])

merge_thm_builder(remap, other, i) == remap_thm(remap, other.thms[i + 1])

\* the loop of Environment::merge over other.stmts, from statement i on
RECURSIVE merge_stmts(_, _, _, _, _)
merge_stmts(e, other, remap, errors, i) ==
  IF i > Len(other.stmts) THEN MergeState(e, remap, errors, None)
  ELSE
    LET s == other.stmts[i]
    IN IF s.tag = "Sort"
       THEN LET oi == other.sort_keys[s.name]
                sort == other.sorts[oi + 1]
                r == add_sort(e, s.name, sort.span, sort.mods)
            IN IF r.tag = "Overflow"
               THEN MergeState(r.env, remap, errors, Some(MergeErr("too many sorts", s.name)))
               ELSE LET id == r.id[1]
                    IN merge_stmts(r.env, other,
                         IF oi # id THEN [remap EXCEPT !.sort = Insert(@, oi, id)] ELSE remap,
                         IF r.tag = "Redeclaration"
                           THEN Append(errors, MergeErr("sort redeclared", s.name)) ELSE errors,
                         i + 1)
       ELSE LET k == other.decl_keys[s.name]
                oi == k.id
                r == IF k.tag = "Term"
                     THEN add_term(e, s.name, other.terms[oi + 1].span, merge_term_builder(remap, other, oi))
                     ELSE add_thm(e, s.name, other.thms[oi + 1].span, merge_thm_builder(remap, other, oi))
            IN IF r.tag = "Overflow"
               THEN MergeState(r.env, remap, errors,
                      Some(MergeErr(IF k.tag = "Term" THEN "too many terms" ELSE "too many theorems", s.name)))
               ELSE IF r.id = None
               THEN MergeState(r.env, remap, errors, Some(MergeErr("redeclared", s.name)))
               ELSE LET id == r.id[1]
                    IN merge_stmts(r.env, other,
                         IF oi = id THEN remap
                         ELSE IF k.tag = "Term" THEN [remap EXCEPT !.term = Insert(@, oi, id)]
                         ELSE [remap EXCEPT !.thm = Insert(@, oi, id)],
                         IF r.tag = "Redeclaration"
                           THEN Append(errors, MergeErr("redeclared", s.name)) ELSE errors,
                         i + 1)

\* Environment::merge: every result the call can give, over the orders in
\* which the parser tables of other are visited
merge_outcomes(e, other, errors) ==
  IF e.stmts = <<>> THEN {MergeState(other, DefaultRemapper, errors, None)}
  ELSE LET m == merge_stmts(e, other, DefaultRemapper, errors, 1)
       IN IF m.err # None THEN {m}
          ELSE {LET e1 == [m.env EXCEPT !.pe = p.pe]
                    a == merge_atoms(e1, other, <<>>, 1)
                IN MergeState(merge_lisp_vals(a.env, other, a.atom, 1), m.remap, p.errors, None) :
                  p \in UNION {pe_merge_outcomes(m.env.pe, other.pe, m.remap, m.env.sorts, m.errors, ord) :
                                 ord \in MergeOrders(other.pe)}}

-----------------------------------------------------------------------------
(* The coercion specification: sorts are declared, then coerced            *)

MaxCoeSorts == 4

MaxCoeCalls == 4

CoeSortNames == <<"s0", "s1", "s2", "s3", "s4", "s5">>

\* the modifiers the coercion specification declares each sort with
CoeSortMods == <<0, PROVABLE, PROVABLE, 0, 0, PROVABLE>>

CoeSpans == {1}

CoeTerms == {0}

SortIds(e) == 0..(Len(e.sorts) - 1)

ExIdle == [pc |-> "idle"]

NoneCreated == [clean |-> FALSE, sorts |-> <<>>, terms |-> <<>>, thms |-> <<>>]

InitCoe ==
  /\ env = DefaultEnvironment
  /\ last = [op |-> "init"]
  /\ accepted = {}
  /\ created = NoneCreated
  /\ calls = 0
  /\ ex = ExIdle

CoeAddSort ==
  /\ Len(env.sorts) < MaxCoeSorts
  /\ \E fsp \in CoeSpans :
       LET r == add_sort(env, CoeSortNames[Len(env.sorts) + 1], fsp, CoeSortMods[Len(env.sorts) + 1])
       IN /\ env' = r.env
          /\ last' = [op |-> "add_sort", pre |-> env, tag |-> r.tag, id |-> r.id]
  /\ UNCHANGED <<accepted, created, calls, ex>>

CoeAddCoe ==
  /\ calls < MaxCoeCalls
  /\ calls' = calls + 1
  /\ \E s1 \in SortIds(env), s2 \in SortIds(env), fsp \in CoeSpans, t \in CoeTerms :
       \E lo \in Orders(CoeSources(env.pe.coes, s1)), ro \in Orders(CoeTargets(env.pe.coes, s2)) :
         LET r == add_coe(env, s1, s2, fsp, t, lo, ro)
         IN /\ env' = r.env
            /\ last' = [op |-> "add_coe", pre |-> env, s1 |-> s1, s2 |-> s2, err |-> r.err]
            /\ accepted' = IF r.err = None THEN accepted \cup {<<s1, s2>>} ELSE accepted
  /\ UNCHANGED <<created, ex>>

\* merge of a clone of the environment into the environment itself
CoeMergeSelf ==
  /\ calls < MaxCoeCalls
  /\ calls' = calls + 1
  /\ \E m \in merge_outcomes(env, env, <<>>) :
       /\ env' = m.env
       /\ last' = [op |-> "merge", pre |-> env, other |-> env, remap |-> m.remap,
                   errors |-> m.errors, err |-> m.err]
  /\ UNCHANGED <<accepted, created, ex>>

NextCoe == CoeAddSort \/ CoeAddCoe \/ CoeMergeSelf

SpecCoe == InitCoe /\ [][NextCoe]_vars

-----------------------------------------------------------------------------
(* The environment specification: sorts, terms and theorems are declared   *)
(* in a primary environment, and secondary environments are merged into it *)

MaxSorts == 2

MaxMerges == 1

MaxDecls == 2

\* the primary declares new sorts under these names, in this order
SortNames == <<"a", "b", "c", "d">>

EnvMods == {0, PROVABLE}

SortSpans == {1}

Spans == {1, 2}

DeclNames == {"f", "g"}

TermIds(e) == 0..(Len(e.terms) - 1)

ThmIds(e) == 0..(Len(e.thms) - 1)

\* the ids of the most recent entry of a table, if any
Newest(ids) == {i \in ids : i + 1 \notin ids}

\* the terms the builder may return: one bound argument of the newest sort
\* and, for a definition, a value that applies the newest term
TermInputs(e, span) ==
  {Term(span, 0, span, <<(<<"x", TyBound(s)>>)>>, TyReg(s, 1), val) :
     s \in Newest(SortIds(e)),
     val \in {None} \cup {Some(Expr(<<>>, EApp(t, <<ERef(0)>>))) : t \in Newest(TermIds(e))}}

\* the theorems the builder may return: an axiom about its argument, or a
\* theorem stated with the newest term and proved by the newest theorem
ThmInputs(e, span) ==
  {Thm(span, 0, span, <<(<<"x", TyBound(s)>>)>>, <<>>, <<>>, ERef(0), None) :
     s \in Newest(SortIds(e))}
  \cup
  {Thm(span, 0, span, <<(<<"x", TyBound(s)>>)>>, <<>>, <<>>, EApp(t, <<ERef(0)>>),
       Some(Proof(<<>>, PThm(th, <<PRef(0)>>, <<>>, PRef(0))))) :
     s \in Newest(SortIds(e)), t \in Newest(TermIds(e)), th \in Newest(ThmIds(e))}

\* a secondary environment is built by a sequence of add_sort, add_term and
\* add_thm calls on a new environment
RECURSIVE Replay(_, _, _)
Replay(e, script, i) ==
  IF i > Len(script) THEN e
  ELSE LET c == script[i]
       IN Replay(IF c.op = "sort" THEN add_sort(e, c.name, c.span, c.arg).env
                 ELSE IF c.op = "term" THEN add_term(e, c.name, c.span, c.arg).env
                 ELSE add_thm(e, c.name, c.span, c.arg).env,
                 script, i + 1)

Call(op, name, span, arg) == [op |-> op, name |-> name, span |-> span, arg |-> arg]

\* sorts {b:0, c:1} and the term f(b) -> b at term id 0
SecondaryS6 ==
  Replay(DefaultEnvironment,
    <<Call("sort", "b", 1, 0), Call("sort", "c", 1, 0),
      Call("term", "f", 1, Term(1, 0, 1, <<(<<"x", TyReg(0, 0)>>)>>, TyReg(0, 0), None))>>, 1)

\* declarations that clash with the primary's: a with other modifiers, f as
\* a term of span 2, g as a theorem of span 1
SecondaryClash ==
  Replay(DefaultEnvironment,
    <<Call("sort", "a", 1, PROVABLE),
      Call("term", "f", 2, Term(2, 0, 2, <<(<<"x", TyBound(0)>>)>>, TyReg(0, 1), None)),
      Call("thm", "g", 1, Thm(1, 0, 1, <<(<<"x", TyBound(0)>>)>>, <<>>, <<>>, EApp(0, <<ERef(0)>>), None))>>, 1)

\* declarations that mention every kind of id: sorts c, a; the terms h and
\* k (k is defined by h); the theorems p and q (q is stated with k and
\* proved by p)
SecondaryRefs ==
  Replay(DefaultEnvironment,
    <<Call("sort", "c", 1, 0), Call("sort", "a", 1, 0),
      Call("term", "h", 1, Term(1, 0, 1, <<(<<"x", TyBound(0)>>)>>, TyReg(1, 1), None)),
      Call("term", "k", 1, Term(1, 0, 1, <<(<<"x", TyBound(1)>>)>>, TyReg(0, 1),
                                Some(Expr(<<EDummy("y", 0)>>, EApp(0, <<ERef(1)>>))))),
      Call("thm", "p", 1, Thm(1, 0, 1, <<(<<"x", TyBound(1)>>)>>, <<>>, <<>>, ERef(0), None)),
      Call("thm", "q", 1, Thm(1, 0, 1, <<(<<"x", TyBound(0)>>)>>, <<EApp(1, <<ERef(0)>>)>>,
                              <<ERef(1)>>, EApp(1, <<ERef(1)>>),
                              Some(Proof(<<PTerm(1, <<PRef(0)>>)>>,
                                         PConv(PRef(1), PThm(0, <<PRef(0)>>, <<>>, PRef(1)))))))>>, 1)

\* one sort and one term, as the primary itself may declare them
SecondarySame ==
  Replay(DefaultEnvironment,
    <<Call("sort", "a", 1, 0),
      Call("term", "f", 1, Term(1, 0, 1, <<(<<"x", TyBound(0)>>)>>, TyReg(0, 1), None))>>, 1)

Secondaries == {SecondaryS6, SecondaryClash, SecondaryRefs, SecondarySame}

Init ==
  /\ env = DefaultEnvironment
  /\ last = [op |-> "init"]
  /\ accepted = {}
  /\ created = [NoneCreated EXCEPT !.clean = TRUE]
  /\ calls = 0
  /\ ex = ExIdle

\* created after a call that returned r for a name that was new or not
Created(table, r, new) ==
  IF created.clean /\ r.tag = "Ok" /\ new
  THEN [created EXCEPT ![table] = Append(@, r.id[1])]
  ELSE NoneCreated

AddResult(op, s, fsp, r) ==
  [op |-> op, pre |-> env, name |-> s, span |-> fsp, tag |-> r.tag, id |-> r.id,
   other |-> r.other, built |-> r.built]

AddSort ==
  /\ \E i \in 1..MaxSorts, fsp \in SortSpans, sd \in EnvMods :
       /\ i <= Len(env.sorts) + 1
       /\ LET r == add_sort(env, SortNames[i], fsp, sd)
          IN /\ env' = r.env
             /\ last' = AddResult("add_sort", SortNames[i], fsp, r)
             /\ created' = Created("sorts", r, SortNames[i] \notin DOMAIN env.sort_keys)
  /\ UNCHANGED <<accepted, calls, ex>>

\* The builder is not called when the name is bound, so one builder stands
\* for all of them there.
BuilderInputs(inputs, s) ==
  IF s \in DOMAIN env.decl_keys /\ inputs # {} THEN {CHOOSE t \in inputs : TRUE} ELSE inputs

AddTerm ==
  /\ \E s \in DeclNames, fsp \in Spans :
       /\ s \in DOMAIN env.decl_keys \/ Len(env.terms) + Len(env.thms) < MaxDecls
       /\ \E t \in BuilderInputs(TermInputs(env, fsp), s) :
         LET r == add_term(env, s, fsp, t)
         IN /\ env' = r.env
            /\ last' = AddResult("add_term", s, fsp, r)
            /\ created' = Created("terms", r, s \notin DOMAIN env.decl_keys)
  /\ UNCHANGED <<accepted, calls, ex>>

AddThm ==
  /\ \E s \in DeclNames, fsp \in Spans :
       /\ s \in DOMAIN env.decl_keys \/ Len(env.terms) + Len(env.thms) < MaxDecls
       /\ \E t \in BuilderInputs(ThmInputs(env, fsp), s) :
         LET r == add_thm(env, s, fsp, t)
         IN /\ env' = r.env
            /\ last' = AddResult("add_thm", s, fsp, r)
            /\ created' = Created("thms", r, s \notin DOMAIN env.decl_keys)
  /\ UNCHANGED <<accepted, calls, ex>>

Merge ==
  /\ calls < MaxMerges
  /\ calls' = calls + 1
  /\ \E other \in Secondaries \cup {env} :
       \E m \in merge_outcomes(env, other, <<>>) :
         /\ env' = m.env
         /\ last' = [op |-> "merge", pre |-> env, other |-> other, remap |-> m.remap,
                     errors |-> m.errors, err |-> m.err]
  /\ created' = NoneCreated
  /\ UNCHANGED <<accepted, ex>>

Next == AddSort \/ AddTerm \/ AddThm \/ Merge

Spec == Init /\ [][Next]_vars

-----------------------------------------------------------------------------
(* C1: whenever add_coe(s1, s2, t) succeeds, every pair (a, b) with a -> s1 *)
(* and s2 -> b in the table before the call has a -> b in the table after.  *)
C1_ClosureAfterAddCoe ==
  (last.op = "add_coe" /\ last.err = None) =>
    \A a \in SortIds(env), b \in SortIds(env) :
      (HasCoe(last.pre.pe.coes, a, last.s1) /\ HasCoe(last.pre.pe.coes, last.s2, b))
        => HasCoe(env.pe.coes, a, b)

\* the sorts one direct coercion of E away from a
DirectSucc(E, a) == {e[2] : e \in {x \in E : x[1] = a}}

RECURSIVE ReachN(_, _, _)
ReachN(E, S, n) ==
  IF n = 0 THEN S
  ELSE ReachN(E, S \cup UNION {DirectSucc(E, x) : x \in S}, n - 1)

\* the sorts reached from a by one or more direct coercions of E
ReachPlus(E, a) == ReachN(E, DirectSucc(E, a), Cardinality(E))

ReachStar(E, a) == {a} \cup ReachPlus(E, a)

(* C2: following the direct coercions that add_coe accepted, no sort        *)
(* reaches itself and no ordered pair of sorts is joined by two paths.      *)
C2_AcyclicDiamondFree ==
  /\ \A a \in SortIds(env) : a \notin ReachPlus(accepted, a)
  /\ \A a \in SortIds(env), b \in SortIds(env) :
       \A x \in DirectSucc(accepted, a), y \in DirectSucc(accepted, a) :
         (b \in ReachStar(accepted, x) /\ b \in ReachStar(accepted, y)) => x = y

(* C5: merging an environment into itself leaves every table of it          *)
(* unchanged and builds an empty remapper.                                  *)
C5_SelfMergeIsIdentity ==
  (last.op = "merge" /\ last.other = last.pre) =>
    (env = last.pre /\ last.remap = DefaultRemapper)

-----------------------------------------------------------------------------
(* Claims about declaration admission and merge                            *)

\* the sequence 0, 1, .., n-1
Iota(n) == [i \in 1..n |-> i - 1]

\* the last call was a merge into a non-empty primary (one that builds a
\* remapper); MergeDone when it also returned Ok
MergeCall == last.op = "merge" /\ last.pre.stmts # <<>>

MergeDone == MergeCall /\ last.err = None

\* the declaration key k points inside its table of e
InTable(e, k) == k.id \in (IF k.tag = "Term" THEN TermIds(e) ELSE ThmIds(e))

\* the record the environment e holds for the declaration key k
DeclRecord(e, k) == IF k.tag = "Term" THEN e.terms[k.id + 1] ELSE e.thms[k.id + 1]

\* the key k of the secondary, rewritten through the remapper r
RemapKey(r, k) ==
  IF k.tag = "Term" THEN KeyTerm(remap_term_id(r, k.id)) ELSE KeyThm(remap_thm_id(r, k.id))

\* the record d of kind tag, rewritten through the remapper r
RemapRecord(r, tag, d) == IF tag = "Term" THEN remap_term(r, d) ELSE remap_thm(r, d)

(* C4, as claimed: after a merge into a non-empty primary that built the   *)
(* remapper R, every term and theorem d of the secondary is in the primary  *)
(* at id R(id of d), and the record stored there is d.remap(R).             *)
C4_RemapHomomorphism ==
  MergeCall =>
    \A n \in DOMAIN last.other.decl_keys :
      LET k == last.other.decl_keys[n]
      IN /\ n \in DOMAIN env.decl_keys
         /\ env.decl_keys[n] = RemapKey(last.remap, k)
         /\ InTable(env, RemapKey(last.remap, k))
         /\ DeclRecord(env, RemapKey(last.remap, k))
              = RemapRecord(last.remap, k.tag, DeclRecord(last.other, k))

(* C4, amended: after a merge into a non-empty primary that returned Ok    *)
(* and built the remapper R, every term and theorem d of the secondary is   *)
(* in the primary at id R(id of d); the record there is d.remap(R) when     *)
(* the name of d was not bound in the primary before the merge, and it is   *)
(* the record the primary already held under that name otherwise.           *)
C4_RemapHomomorphismNewNames ==
  MergeDone =>
    \A n \in DOMAIN last.other.decl_keys :
      LET k == last.other.decl_keys[n]
      IN /\ n \in DOMAIN env.decl_keys
         /\ env.decl_keys[n] = RemapKey(last.remap, k)
         /\ DeclRecord(env, RemapKey(last.remap, k))
              = IF n \in DOMAIN last.pre.decl_keys
                THEN DeclRecord(last.pre, last.pre.decl_keys[n])
                ELSE RemapRecord(last.remap, k.tag, DeclRecord(last.other, k))

\* a merge that renumbered sorts, terms and theorems and appended new ones
C4_Witness ==
  /\ MergeDone
  /\ last.other = SecondaryRefs
  /\ last.remap.sort # EmptyMap /\ last.remap.term # EmptyMap /\ last.remap.thm # EmptyMap
  /\ Len(env.terms) = Len(last.pre.terms) + 2
  /\ Len(env.thms) = Len(last.pre.thms) + 2

\* scenario S6: the primary holds the sorts {a:0, b:1} and no f, the
\* secondary the sorts {b:0, c:1} and the term f(b) -> b at term id 0
S6Merge ==
  /\ last.op = "merge"
  /\ last.other = SecondaryS6
  /\ DOMAIN last.pre.sort_keys = {"a", "b"}
  /\ last.pre.sort_keys["a"] = 0 /\ last.pre.sort_keys["b"] = 1
  /\ "f" \notin DOMAIN last.pre.decl_keys

\* what S6 says of the primary after the merge: b is sort 1, c is sort 2,
\* f is the term after the primary's and both its sorts are SortID(1)
S6Tables ==
  /\ last.err = None
  /\ remap_sort_id(last.remap, 0) = 1
  /\ env.sort_keys["b"] = 1 /\ env.sort_keys["c"] = 2
  /\ env.decl_keys["f"] = KeyTerm(Len(last.pre.terms))
  /\ Len(env.terms) = Len(last.pre.terms) + 1
  /\ env.terms[Len(env.terms)].args[1][2] = TyReg(1, 0)
  /\ env.terms[Len(env.terms)].ret = TyReg(1, 0)

(* C6, as claimed: in scenario S6 the merge maps b to sort 1, adds c as     *)
(* sort 2, appends f with both sorts rewritten to SortID(1), and builds     *)
(* exactly the remapper {sort: {0->1}, term: {}, thm: {}}.                  *)
C6_ScenarioS6 ==
  S6Merge =>
    /\ S6Tables
    /\ last.remap = [sort |-> (0 :> 1), term |-> EmptyMap, thm |-> EmptyMap]

(* C6, amended: in scenario S6 the merge maps b to sort 1, adds c as sort   *)
(* 2, appends f with both sorts rewritten to SortID(1), and builds the      *)
(* remapper {sort: {0->1, 1->2}, term: {0->k}, thm: {}} where k is the      *)
(* number of terms the primary held; term is {} when k = 0.                 *)
C6_ScenarioS6Remapper ==
  S6Merge =>
    /\ S6Tables
    /\ last.remap = [sort |-> (0 :> 1 @@ 1 :> 2),
                     term |-> IF Len(last.pre.terms) = 0 THEN EmptyMap
                              ELSE (0 :> Len(last.pre.terms)),
                     thm |-> EmptyMap]

C6_Witness == S6Merge /\ Len(last.pre.terms) = 1 /\ Len(env.terms) = 2

(* C7: while every call so far was an add_sort, add_term or add_thm that    *)
(* succeeded on a new name, the ids returned for the sorts are 0, 1, ..     *)
(* in creation order and as many as the table holds, and likewise for the   *)
(* terms and for the theorems.                                              *)
C7_DenseIds ==
  created.clean =>
    /\ created.sorts = Iota(Len(env.sorts))
    /\ created.terms = Iota(Len(env.terms))
    /\ created.thms = Iota(Len(env.thms))

C7_Witness ==
  /\ created.clean
  /\ Len(created.sorts) >= 2 /\ Len(created.terms) >= 1 /\ Len(created.thms) >= 1

\* the last call was add_term or add_thm on a name that was already bound
RedeclCall ==
  /\ last.op \in {"add_term", "add_thm"}
  /\ last.name \in DOMAIN last.pre.decl_keys

NewDeclCall ==
  /\ last.op \in {"add_term", "add_thm"}
  /\ last.name \notin DOMAIN last.pre.decl_keys

(* C8: add_term (add_thm) on a bound name returns the existing id when the  *)
(* name is bound to the same kind with an equal span; otherwise it fails    *)
(* with Redeclaration carrying the prior span, with the old id for the      *)
(* same kind and without it across kinds.  The environment is unchanged     *)
(* and the builder is not called; on a new name it is called exactly once.  *)
C8_Redeclaration ==
  /\ RedeclCall =>
       LET k == last.pre.decl_keys[last.name]
           sameKind == k.tag = (IF last.op = "add_term" THEN "Term" ELSE "Thm")
           prior == DeclRecord(last.pre, k).span
       IN /\ env = last.pre
          /\ last.built = 0
          /\ IF sameKind /\ prior = last.span
             THEN last.tag = "Ok" /\ last.id = Some(k.id)
             ELSE /\ last.tag = "Redeclaration"
                  /\ last.other = Some(prior)
                  /\ last.id = (IF sameKind THEN Some(k.id) ELSE None)
  /\ NewDeclCall => last.built = 1

\* add_term on a name bound to a theorem
C8_Witness ==
  /\ RedeclCall
  /\ last.op = "add_term"
  /\ last.pre.decl_keys[last.name].tag = "Thm"
  /\ last.tag = "Redeclaration"

\* the number of statements among the first i of e.stmts that are of the
\* kind of the declaration key tag ("Sort", "Term" or "Thm")
StmtCount(e, tag, i) ==
  Cardinality({j \in 1..i :
     IF e.stmts[j].tag = "Sort" THEN tag = "Sort"
     ELSE e.decl_keys[e.stmts[j].name].tag = tag})

(* C10: stmts holds one entry per sort and one per declaration in creation  *)
(* order, so that replaying it gives every name the id the dictionaries     *)
(* hold; sort_keys and decl_keys map each name to a table index of its own  *)
(* and every table index has exactly one name.                              *)
C10_StmtsAndKeys ==
  /\ Len(env.stmts) = Len(env.sorts) + Len(env.terms) + Len(env.thms)
  /\ \A i \in 1..Len(env.stmts) :
       LET s == env.stmts[i]
       IN IF s.tag = "Sort"
          THEN /\ s.name \in DOMAIN env.sort_keys
               /\ env.sort_keys[s.name] = StmtCount(env, "Sort", i) - 1
          ELSE /\ s.name \in DOMAIN env.decl_keys
               /\ env.decl_keys[s.name].id
                    = StmtCount(env, env.decl_keys[s.name].tag, i) - 1
  /\ \A n \in DOMAIN env.sort_keys :
       env.sort_keys[n] \in SortIds(env) /\ env.sorts[env.sort_keys[n] + 1].name = n
  /\ \A i \in SortIds(env) : Cardinality({n \in DOMAIN env.sort_keys : env.sort_keys[n] = i}) = 1
  /\ \A n \in DOMAIN env.decl_keys :
       env.decl_keys[n].id \in (IF env.decl_keys[n].tag = "Term" THEN TermIds(env) ELSE ThmIds(env))
  /\ \A i \in TermIds(env) : Cardinality({n \in DOMAIN env.decl_keys : env.decl_keys[n] = KeyTerm(i)}) = 1
  /\ \A i \in ThmIds(env) : Cardinality({n \in DOMAIN env.decl_keys : env.decl_keys[n] = KeyThm(i)}) = 1

\* a merge that failed part of the way, after it had added declarations
C10_Witness ==
  /\ last.op = "merge"
  /\ last.err # None
  /\ Len(env.stmts) > Len(last.pre.stmts)
  /\ Len(last.pre.stmts) >= 2

-----------------------------------------------------------------------------
(* The sort capacity specification: sorts with new names, one after another *)

MaxCapCalls == 258

InitCap ==
  /\ env = DefaultEnvironment
  /\ last = [op |-> "init"]
  /\ accepted = {}
  /\ created = NoneCreated
  /\ calls = 0
  /\ ex = ExIdle

\* add_sort of a name that is not bound yet
CapAddSort ==
  /\ calls < MaxCapCalls
  /\ LET s == ToString(calls)
         r == add_sort(env, s, 1, 0)
     IN /\ env' = r.env
        /\ last' = AddResult("add_sort", s, 1, r)
  /\ calls' = calls + 1
  /\ UNCHANGED <<accepted, created, ex>>

NextCap == CapAddSort

SpecCap == InitCap /\ [][NextCap]_vars

(* C9: add_sort of a new name fails with Overflow once the 7-bit id space  *)
(* is used up (the ids 0..127 are taken), so no environment holds a sort    *)
(* id above 127, the largest the exporter's sort field takes, or more than  *)
(* the exporter's 128 sorts.                                                *)
C9_SortOverflow ==
  /\ (/\ last.op = "add_sort"
      /\ last.name \notin DOMAIN last.pre.sort_keys
      /\ Len(last.pre.sorts) >= MAX_SORTS) => last.tag = "Overflow"
  /\ \A n \in DOMAIN env.sort_keys : env.sort_keys[n] < MAX_SORTS
  /\ Len(env.sorts) <= MAX_SORTS

-----------------------------------------------------------------------------
(* MMB exporter: bytes, commands and the DAG linearizers                    *)
(*                                                                          *)
(* The exporter reads the Environment of its own revision: a term's ret is  *)
(* the pair <<sort, deps>>, val and proof are Option<Option<..>>, hyps are  *)
(* pairs <<name, node>>, a Proof has heap, hyps and head, a heap holds the  *)
(* arguments in its first slots, and a Decl statement names an atom whose   *)
(* data entry holds the declaration key.  The sink is the byte sequence     *)
(* out; a u64 is written byte by byte because its values exceed the         *)
(* integers of TLC.                                                       *)

DATA_8 == 64

DATA_16 == 128

DATA_32 == 192

STMT_SORT == 4

STMT_AXIOM == 2

STMT_TERM == 5

STMT_DEF == 5

STMT_THM == 6

STMT_LOCAL == 8

PROOF_TERM == 16

PROOF_TERM_SAVE == 17

PROOF_REF == 18

PROOF_DUMMY == 19

PROOF_HYP == 22

UNIFY_TERM == 48

UNIFY_TERM_SAVE == 49

UNIFY_DUMMY == 51

UNIFY_HYP == 54

\* Modifiers::LOCAL, compared with a declaration's vis
Modifiers_LOCAL == "LOCAL"

PHyp(n, e) == [tag |-> "Hyp", n |-> n, e |-> e]

PDummy(name, s) == [tag |-> "Dummy", name |-> name, sort |-> s]

\* the operator | on two bytes
RECURSIVE BitOr(_, _)
BitOr(a, b) ==
  IF a = 0 THEN b
  ELSE IF b = 0 THEN a
  ELSE (IF a % 2 = 1 \/ b % 2 = 1 THEN 1 ELSE 0) + 2 * BitOr(a \div 2, b \div 2)

\* the k little-endian bytes of n
RECURSIVE LE(_, _)
LE(n, k) == IF k = 0 THEN <<>> ELSE <<n % 256>> \o LE(n \div 256, k - 1)

Zeros(n) == [i \in 1..n |-> 0]

ValueU32(v) == [kind |-> "U32", val |-> v]

ValueU64(v) == [kind |-> "U64", val |-> v]

ValueBox(b) == [kind |-> "Box", box |-> b]

write_cmd(cmd, data) ==
  IF data = 0 THEN <<cmd>>
  ELSE IF data <= 255 THEN <<BitOr(cmd, DATA_8), data>>
  ELSE IF data <= 65535 THEN <<BitOr(cmd, DATA_16)>> \o LE(data, 2)
  ELSE <<BitOr(cmd, DATA_32)>> \o LE(data, 4)

write_cmd_bytes(cmd, vec) ==
  IF Len(vec) + 2 <= 255 THEN <<BitOr(cmd, DATA_8), Len(vec) + 2>> \o vec
  ELSE IF Len(vec) + 3 <= 65535 THEN <<BitOr(cmd, DATA_16)>> \o LE(Len(vec) + 3, 2) \o vec
  ELSE <<BitOr(cmd, DATA_32)>> \o LE(Len(vec) + 5, 4) \o vec

\* a Reorder whose idx starts at 0
Reorder_new_idx0(nargs, len) ==
  [map |-> [i \in 1..len |-> IF i <= nargs THEN Some(i - 1) ELSE None], idx |-> 0]

\* Reorder::new: the arguments keep their slots, the rest of the heap is unset
Reorder_new(nargs, len) ==
  [map |-> [i \in 1..len |-> IF i <= nargs THEN Some(i - 1) ELSE None], idx |-> nargs]

\* write_expr_proof on st = [w, reorder, n]: w is the buffer, n the result
RECURSIVE write_expr_proof(_, _, _, _)
RECURSIVE write_expr_proof_all(_, _, _, _)
write_expr_proof(st, heap, head, save) ==
  CASE head.tag = "Ref" ->
         IF st.reorder.map[head.i + 1] = None
         THEN LET r == write_expr_proof(st, heap, heap[head.i + 1], TRUE)
              IN [r EXCEPT !.reorder.map[head.i + 1] = Some(r.n)]
         ELSE LET n == st.reorder.map[head.i + 1][1]
              IN [st EXCEPT !.w = @ \o write_cmd(PROOF_REF, n), !.n = n]
    [] head.tag = "Dummy" ->
         [st EXCEPT !.w = @ \o write_cmd(PROOF_DUMMY, head.sort),
                    !.n = st.reorder.idx,
                    !.reorder.idx = @ + 1]
    [] head.tag = "App" ->
         LET r == write_expr_proof_all(st, heap, head.es, 1)
         IN IF save
            THEN [r EXCEPT !.w = @ \o write_cmd(PROOF_TERM_SAVE, head.t),
                           !.n = r.reorder.idx,
                           !.reorder.idx = @ + 1]
            ELSE [r EXCEPT !.w = @ \o write_cmd(PROOF_TERM, head.t), !.n = 0]

write_expr_proof_all(st, heap, es, i) ==
  IF i > Len(es) THEN st
  ELSE write_expr_proof_all(write_expr_proof(st, heap, es[i], FALSE), heap, es, i + 1)

\* a commit that forgets the pending slots
commit_drop(st, n) == [st EXCEPT !.save = <<>>]

\* the macro commit! of write_expr_unify on st = [w, reorder, save]
commit(st, n) ==
  [st EXCEPT !.reorder.map = [i \in DOMAIN @ |-> IF (i - 1) \in Range(st.save) THEN Some(n) ELSE @[i]],
             !.save = <<>>]

RECURSIVE write_expr_unify(_, _, _)
RECURSIVE write_expr_unify_all(_, _, _, _)
write_expr_unify(st, heap, head) ==
  CASE head.tag = "Ref" ->
         IF st.reorder.map[head.i + 1] = None
         THEN write_expr_unify([st EXCEPT !.save = Append(@, head.i)], heap, heap[head.i + 1])
         ELSE commit(st, st.reorder.map[head.i + 1][1])
    [] head.tag = "Dummy" ->
         LET c == commit(st, st.reorder.idx)
         IN [c EXCEPT !.reorder.idx = @ + 1, !.w = @ \o write_cmd(UNIFY_DUMMY, head.sort)]
    [] head.tag = "App" ->
         LET c == IF st.save = <<>>
                  THEN [st EXCEPT !.w = @ \o write_cmd(UNIFY_TERM, head.t)]
                  ELSE LET d == commit(st, st.reorder.idx)
                       IN [d EXCEPT !.reorder.idx = @ + 1,
                                    !.w = @ \o write_cmd(UNIFY_TERM_SAVE, head.t)]
         IN write_expr_unify_all(c, heap, head.es, 1)

write_expr_unify_all(st, heap, es, i) ==
  IF i > Len(es) THEN st
  ELSE write_expr_unify_all(write_expr_unify(st, heap, es[i]), heap, es, i + 1)

\* write_proof on st = [w, reorder, n, panic]; panic is None or Some(message)
RECURSIVE write_proof(_, _, _, _, _)
RECURSIVE write_proof_all(_, _, _, _, _)
write_proof(st, heap, hyps, head, save) ==
  IF st.panic # None THEN st
  ELSE
  CASE head.tag = "Ref" ->
         IF st.reorder.map[head.i + 1] = None
         THEN LET r == write_proof(st, heap, hyps, heap[head.i + 1], TRUE)
              IN IF r.panic # None THEN r
                 ELSE [r EXCEPT !.reorder.map[head.i + 1] = Some(r.n)]
         ELSE LET n == st.reorder.map[head.i + 1][1]
              IN [st EXCEPT !.w = @ \o write_cmd(PROOF_REF, n), !.n = n]
    [] head.tag = "Dummy" -> [st EXCEPT !.panic = Some("unreachable")]
    [] head.tag = "Term" ->
         LET r == write_proof_all(st, heap, hyps, head.args, 1)
         IN IF r.panic # None THEN r
            ELSE IF save
            THEN [r EXCEPT !.w = @ \o write_cmd(PROOF_TERM_SAVE, head.term),
                           !.n = r.reorder.idx,
                           !.reorder.idx = @ + 1]
            ELSE [r EXCEPT !.w = @ \o write_cmd(PROOF_TERM, head.term), !.n = 0]
    [] head.tag = "Hyp" ->
         [st EXCEPT !.w = @ \o write_cmd(PROOF_REF, hyps[head.n + 1]), !.n = hyps[head.n + 1]]
    [] OTHER -> [st EXCEPT !.panic = Some("not implemented")]

write_proof_all(st, heap, hyps, es, i) ==
  IF i > Len(es) \/ st.panic # None THEN st
  ELSE write_proof_all(write_proof(st, heap, hyps, es[i], FALSE), heap, hyps, es, i + 1)

-----------------------------------------------------------------------------
(* MMB exporter: the Exporter and the steps of Exporter::run               *)

\* Exporter::new; the fields after fixups are the locals of run: the loop
\* index i, the fixup tokens and the panic message
Exporter_new ==
  [pc |-> "start", out |-> <<>>, pos |-> 0,
   term_reord |-> <<>>, thm_reord |-> <<>>, fixups |-> <<>>,
   i |-> 0, p_thms |-> 0, p_proof |-> 0, p_index |-> 0,
   term_header |-> [at |-> 0, box |-> <<>>],
   thm_header |-> [at |-> 0, box |-> <<>>],
   panic |-> None]

Panic(e, msg) == [e EXCEPT !.pc = "panic", !.panic = Some(msg)]

\* Write for Exporter: pos advances and the bytes go to the sink
write_all(e, buf) == [e EXCEPT !.pos = @ + Len(buf), !.out = @ \o buf]

\* an align_to that writes no padding
align_to_nothing(e, n) == e

align_to(e, n) == write_all(e, Zeros((((n - (e.pos % 256)) + 256) % 256) % n))

\* the commits of Fixup32, Fixup64 and FixupLarge: a push onto e.fixups
Fixup32_commit(e, at) == [e EXCEPT !.fixups = Append(@, [at |-> at, val |-> ValueU32(e.pos)])]

Fixup64_commit_val(e, at, val) == [e EXCEPT !.fixups = Append(@, [at |-> at, val |-> ValueU64(val)])]

Fixup64_commit(e, at) == Fixup64_commit_val(e, at, e.pos)

FixupLarge_commit(e, f) == [e EXCEPT !.fixups = Append(@, [at |-> f.at, val |-> ValueBox(f.box)])]

\* fixup_large: the token holds the position and a zeroed box
fixup_large(e, size) == [at |-> e.pos, box |-> Zeros(size)]

\* the u64 with bit k set, as 8 little-endian bytes
Pow2Bytes(k) == [i \in 1..8 |-> IF k \div 8 = i - 1 THEN 2 ^ (k % 8) ELSE 0]

\* write_sort_deps; deps is a u64 given as its 8 little-endian bytes
write_sort_deps(bound, sort, deps) ==
  [i \in 1..8 |-> IF i = 8 THEN BitOr(BitOr(IF bound THEN 128 ELSE 0, sort), deps[8])
                  ELSE deps[i]]

\* the loop of write_binders from argument i on; bv is 2^k
RECURSIVE write_binders_from(_, _, _)
write_binders_from(args, i, k) ==
  IF i > Len(args) THEN [w |-> <<>>, panic |-> None]
  ELSE LET ty == args[i][2]
       IN IF ty.tag = "Bound"
          THEN IF k >= 55 THEN [w |-> <<>>, panic |-> Some("more than 55 bound variables")]
               ELSE LET r == write_binders_from(args, i + 1, k + 1)
                    IN [r EXCEPT !.w = write_sort_deps(TRUE, ty.sort, Pow2Bytes(k)) \o @]
          ELSE LET r == write_binders_from(args, i + 1, k)
               IN [r EXCEPT !.w = write_sort_deps(FALSE, ty.sort, LE(ty.deps, 8)) \o @]

write_binders(args) == write_binders_from(args, 1, 0)

write_term_header(header, nargs, sort, has_def, p_term) ==
  [j \in 1..8 |-> IF j <= 2 THEN LE(nargs, 2)[j]
                  ELSE IF j = 3 THEN BitOr(sort, IF has_def THEN 128 ELSE 0)
                  ELSE IF j >= 5 THEN LE(p_term, 4)[j - 4]
                  ELSE header[j]]

write_thm_header(header, nargs, p_thm) ==
  [j \in 1..8 |-> IF j <= 2 THEN LE(nargs, 2)[j]
                  ELSE IF j >= 5 THEN LE(p_thm, 4)[j - 4]
                  ELSE header[j]]

\* the box with its i-th chunk of 8 bytes replaced by head
SetChunk(box, i, head) ==
  [j \in 1..Len(box) |-> IF 8 * i < j /\ j <= 8 * i + 8 THEN head[j - 8 * i] ELSE box[j]]

\* run, lines 388-408: the header, the sort bytes and the term table
run_header(e, environment) ==
  LET num_sorts == Len(environment.sorts)
      e1 == write_all(e, <<77, 77, 48, 66>>)
  IN IF num_sorts > MAX_SORTS THEN Panic(e1, "too many sorts (max 128)")
     ELSE
       LET e2 == write_all(e1, LE(1 + 256 * num_sorts, 4))
           e3 == write_all(e2, LE(Len(environment.terms), 4))
           e4 == write_all(e3, LE(Len(environment.thms), 4))
           e5 == write_all(e4, LE(0, 4))
           e6 == write_all(e5, LE(0, 4))
           e7 == write_all(e6, LE(0, 8))
           e8 == write_all(e7, LE(0, 8))
           e9 == write_all(e8, [i \in 1..num_sorts |-> environment.sorts[i].mods])
           e10 == Fixup32_commit(align_to(e9, 8), e4.pos)
           term_header == fixup_large(e10, Len(environment.terms) * 8)
           e11 == write_all(e10, term_header.box)
       IN [e11 EXCEPT !.pc = "terms", !.i = 0,
                      !.p_thms = e5.pos, !.p_proof = e6.pos, !.p_index = e7.pos,
                      !.term_header = term_header]

\* run, lines 409-426: one turn of the loop over the terms
run_term(e, environment) ==
  LET t == environment.terms[e.i + 1]
      e1 == align_to(e, 8)
      head == write_term_header(SubSeq(e.term_header.box, 8 * e.i + 1, 8 * e.i + 8),
                                Len(t.args), t.ret[1], t.val # None, e1.pos)
      e2 == [e1 EXCEPT !.term_header.box = SetChunk(@, e.i, head)]
      b == write_binders(t.args)
      e3 == write_all(write_all(e2, b.w), write_sort_deps(FALSE, t.ret[1], LE(t.ret[2], 8)))
  IN IF b.panic # None THEN Panic(e2, b.panic[1])
     ELSE IF t.val = None THEN [e3 EXCEPT !.term_reord = Append(@, None), !.i = @ + 1]
     ELSE IF t.val[1] = None THEN Panic(e3, "def missing value")
     ELSE LET x == t.val[1][1]
              st == write_expr_unify([w |-> <<>>,
                                      reorder |-> Reorder_new(Len(t.args), Len(x.heap)),
                                      save |-> <<>>], x.heap, x.head)
          IN [write_all(e3, st.w \o <<0>>) EXCEPT !.term_reord = Append(@, Some(st.reorder)),
                                                   !.i = @ + 1]

\* run, lines 427-430: the term table is committed, the theorem table starts
run_terms_done(e, environment) ==
  LET e1 == FixupLarge_commit(e, e.term_header)
      e2 == Fixup32_commit(align_to(e1, 8), e.p_thms)
      thm_header == fixup_large(e2, Len(environment.thms) * 8)
      e3 == write_all(e2, thm_header.box)
  IN [e3 EXCEPT !.pc = "thms", !.i = 0, !.thm_header = thm_header]

\* for (_, h) in t.hyps.iter().rev(): UnifyCmd::Hyp, then the hypothesis
RECURSIVE unify_hyps(_, _, _)
unify_hyps(st, t, i) ==
  IF i < 1 THEN st
  ELSE unify_hyps(write_expr_unify([st EXCEPT !.w = @ \o <<UNIFY_HYP>>], t.heap, t.hyps[i][2]),
                  t, i - 1)

\* run, lines 431-446: one turn of the loop over the theorems
run_thm(e, environment) ==
  LET t == environment.thms[e.i + 1]
      e1 == align_to(e, 8)
      head == write_thm_header(SubSeq(e.thm_header.box, 8 * e.i + 1, 8 * e.i + 8),
                               Len(t.args), e1.pos)
      e2 == [e1 EXCEPT !.thm_header.box = SetChunk(@, e.i, head)]
      b == write_binders(t.args)
      st0 == [w |-> <<>>, reorder |-> Reorder_new(Len(t.args), Len(t.heap)), save |-> <<>>]
      st1 == unify_hyps(write_expr_unify(st0, t.heap, t.ret), t, Len(t.hyps))
  IN IF b.panic # None THEN Panic(e2, b.panic[1])
     ELSE [write_all(write_all(e2, b.w), st1.w \o <<0>>)
             EXCEPT !.thm_reord = Append(@, st1.reorder), !.i = @ + 1]

\* run, lines 447-450: the theorem table and p_proof are committed
run_thms_done(e) ==
  LET e1 == FixupLarge_commit(e, e.thm_header)
  IN [Fixup64_commit(e1, e.p_proof) EXCEPT !.pc = "proof", !.i = 0]

\* for (_, h) in &td.hyps of an axiom: the hypothesis, then ProofCmd::Hyp
RECURSIVE axiom_hyps(_, _, _)
axiom_hyps(st, td, i) ==
  IF i > Len(td.hyps) THEN st
  ELSE LET r == write_expr_proof(st, td.heap, td.hyps[i][2], FALSE)
       IN axiom_hyps([r EXCEPT !.w = @ \o <<PROOF_HYP>>], td, i + 1)

\* while let &ProofNode::Ref(i) = h {h = &heap[i]}
RECURSIVE resolve_ref(_, _)
resolve_ref(heap, h) == IF h.tag = "Ref" THEN resolve_ref(heap, heap[h.i + 1]) ELSE h

\* for mut h in hyps of a proof, from hypothesis i on
RECURSIVE proof_hyps(_, _, _, _)
proof_hyps(st, p, ehyps, i) ==
  IF i > Len(p.hyps) \/ st.panic # None THEN [st |-> st, ehyps |-> ehyps]
  ELSE LET h == resolve_ref(p.heap, p.hyps[i])
       IN IF h.tag # "Hyp"
          THEN [st |-> [st EXCEPT !.panic = Some("unreachable")], ehyps |-> ehyps]
          ELSE LET r == write_proof(st, p.heap, ehyps, h.e, FALSE)
               IN IF r.panic # None THEN [st |-> r, ehyps |-> ehyps]
                  ELSE proof_hyps([r EXCEPT !.w = @ \o <<PROOF_HYP>>, !.reorder.idx = @ + 1],
                                  p, Append(ehyps, r.reorder.idx), i + 1)

\* the command byte of a definition or theorem: cmd | STMT_LOCAL when local
StmtCmd(cmd, vis) == BitOr(cmd, IF vis = Modifiers_LOCAL THEN STMT_LOCAL ELSE 0)

\* run, lines 451-510: one turn of the loop over the statements
run_stmt(e, environment) ==
  LET s == environment.stmts[e.i + 1]
      step(e1) == [e1 EXCEPT !.i = @ + 1]
  IN IF s.tag = "Sort" THEN step(write_all(e, write_cmd(STMT_SORT, 2)))
     ELSE IF s.tag = "Global" THEN step(e)
     ELSE IF environment.data[s.a + 1].decl = None THEN Panic(e, "unwrap on None")
     ELSE
       LET k == environment.data[s.a + 1].decl[1]
       IN IF k.tag = "Term"
          THEN LET td == environment.terms[k.id + 1]
               IN IF td.val = None THEN step(write_all(e, write_cmd(STMT_TERM, 2)))
                  ELSE IF td.val[1] = None THEN Panic(e, "unreachable")
                  ELSE LET x == td.val[1][1]
                           st == write_expr_proof([w |-> <<>>,
                                                   reorder |-> Reorder_new(Len(td.args), Len(x.heap)),
                                                   n |-> 0], x.heap, x.head, FALSE)
                       IN step(write_all(e, write_cmd_bytes(StmtCmd(STMT_DEF, td.vis), st.w \o <<0>>)))
          ELSE LET td == environment.thms[k.id + 1]
               IN IF td.proof = None
                  THEN LET st0 == [w |-> <<>>,
                                   reorder |-> Reorder_new(Len(td.args), Len(td.heap)),
                                   n |-> 0]
                           st == write_expr_proof(axiom_hyps(st0, td, 1), td.heap, td.ret, FALSE)
                       IN step(write_all(e, write_cmd_bytes(STMT_AXIOM, st.w \o <<0>>)))
                  ELSE IF td.proof[1] = None THEN Panic(e, "proof missing")
                  ELSE LET p == td.proof[1][1]
                           st0 == [w |-> <<>>,
                                   reorder |-> Reorder_new(Len(td.args), Len(p.heap)),
                                   n |-> 0, panic |-> None]
                           hs == proof_hyps(st0, p, <<>>, 1)
                           st == write_proof(hs.st, p.heap, hs.ehyps, p.head, FALSE)
                       IN IF st.panic # None THEN Panic(e, st.panic[1])
                          ELSE step(write_all(e, write_cmd_bytes(StmtCmd(STMT_THM, td.vis),
                                                                 st.w \o <<0, 0>>)))

\* run, lines 511-513: the end of the proof stream; p_index is committed as 0
run_finish(e) ==
  [Fixup64_commit_val(write_all(e, <<0>>), e.p_index, 0) EXCEPT !.pc = "done"]

-----------------------------------------------------------------------------
(* The export specification: Exporter::run over a finished environment      *)

MaxExSorts == 2

MaxExDecls == 2

PThmApp(thm, args) == [tag |-> "Thm", thm |-> thm, args |-> args]

DeclShapes == {"term", "def", "axiom", "thm", "thm_by_thm", "axiom2", "thm2"}

\* a term: a constructor with a bound and a regular argument, or a local
\* definition whose value applies the term before it to a dummy
ExportTerm(e, shape, a) ==
  IF shape = "term"
  THEN [args |-> << <<"x", TyBound(0)>>, <<"y", TyReg(Len(e.sorts) - 1, 1)>> >>,
        ret |-> <<0, 0>>, val |-> None, vis |-> "", atom |-> a]
  ELSE [args |-> << <<"x", TyReg(0, 0)>> >>,
        ret |-> <<Len(e.sorts) - 1, 0>>,
        val |-> Some(Some(Expr(<<ERef(0), EDummy("d", 0)>>,
                   IF e.terms = <<>> THEN ERef(1)
                   ELSE EApp(Len(e.terms) - 1,
                             [j \in 1..Len(e.terms[Len(e.terms)].args) |-> ERef(1)])))),
        vis |-> Modifiers_LOCAL, atom |-> a]

\* a theorem with two hypotheses about the term t before it: h1 is the
\* shared slot t(x, x), h2 and the conclusion are t(h1, x); it is an axiom
\* or it is proved by its second hypothesis
ExportThm2(e, shape, a) ==
  LET t == Len(e.terms) - 1
  IN [args |-> << <<"x", TyReg(0, 0)>> >>,
      heap |-> <<ERef(0), EApp(t, <<ERef(0), ERef(0)>>)>>,
      hyps |-> << <<"h1", ERef(1)>>, <<"h2", EApp(t, <<ERef(1), ERef(0)>>)>> >>,
      ret |-> EApp(t, <<ERef(1), ERef(0)>>),
      proof |-> IF shape = "axiom2" THEN None
                ELSE Some(Some([heap |-> <<PRef(0), PTerm(t, <<PRef(0), PRef(0)>>),
                                           PHyp(0, PRef(1)),
                                           PHyp(1, PTerm(t, <<PRef(1), PRef(0)>>))>>,
                                hyps |-> <<PRef(2), PRef(3)>>,
                                head |-> PRef(3)])),
      vis |-> "",
      atom |-> a]

\* a theorem: an axiom with one hypothesis, a theorem proved by its
\* hypothesis, or a theorem proved by applying the theorem before it
ExportThm(e, shape, a) ==
  IF shape \in {"axiom2", "thm2"} THEN ExportThm2(e, shape, a) ELSE
  [args |-> << <<"x", TyReg(0, 0)>> >>,
   heap |-> <<ERef(0)>>,
   hyps |-> << <<"h", ERef(0)>> >>,
   ret |-> ERef(0),
   proof |-> IF shape = "axiom" THEN None
             ELSE IF shape = "thm"
             THEN Some(Some([heap |-> <<PRef(0), PHyp(0, PRef(0))>>,
                             hyps |-> <<PRef(1)>>,
                             head |-> PRef(1)]))
             ELSE Some(Some([heap |-> <<PRef(0), PHyp(0, PRef(0))>>,
                             hyps |-> <<PRef(1)>>,
                             head |-> PThmApp(Len(e.thms) - 1, <<PRef(0), PRef(1)>>)])),
   vis |-> IF shape = "thm" THEN Modifiers_LOCAL ELSE "",
   atom |-> a]

ExportAddSort(e, mods) ==
  [e EXCEPT !.sorts = Append(@, [mods |-> mods, atom |-> Len(e.data)]),
            !.data = Append(@, [decl |-> None]),
            !.stmts = Append(@, [tag |-> "Sort", a |-> Len(e.data)])]

ExportAddDecl(e, shape) ==
  LET a == Len(e.data)
  IN IF shape \in {"term", "def"}
     THEN [e EXCEPT !.terms = Append(@, ExportTerm(e, shape, a)),
                    !.data = Append(@, [decl |-> Some(KeyTerm(Len(e.terms)))]),
                    !.stmts = Append(@, [tag |-> "Decl", a |-> a])]
     ELSE [e EXCEPT !.thms = Append(@, ExportThm(e, shape, a)),
                    !.data = Append(@, [decl |-> Some(KeyThm(Len(e.thms)))]),
                    !.stmts = Append(@, [tag |-> "Decl", a |-> a])]

RECURSIVE ExportAddDecls(_, _, _)
ExportAddDecls(e, shapes, i) ==
  IF i > Len(shapes) THEN e
  ELSE ExportAddDecls(ExportAddDecl(e, shapes[i]), shapes, i + 1)

RECURSIVE ExportAddSorts(_, _)
ExportAddSorts(e, n) ==
  IF n = 0 THEN e
  ELSE ExportAddSort(ExportAddSorts(e, n - 1), IF n = 1 THEN PROVABLE ELSE 0)

\* the environments handed to the exporter: 1..MaxExSorts sorts and up to
\* MaxExDecls declarations; a theorem proved by a theorem has one before
\* it, and a theorem about a term has a term before it
ExportShapes ==
  {sh \in UNION {[1..n -> DeclShapes] : n \in 0..MaxExDecls} :
     \A i \in 1..Len(sh) :
       /\ sh[i] = "thm_by_thm" => \E j \in 1..(i - 1) : sh[j] \in {"axiom", "thm", "axiom2", "thm2"}
       /\ sh[i] \in {"axiom2", "thm2"} => \E j \in 1..(i - 1) : sh[j] \in {"term", "def"}}

ExportEnvs ==
  {ExportAddDecls(ExportAddSorts([sorts |-> <<>>, terms |-> <<>>, thms |-> <<>>,
                                  data |-> <<>>, stmts |-> <<>>], n), sh, 1) :
     n \in 1..MaxExSorts, sh \in ExportShapes}

InitExport ==
  /\ env \in ExportEnvs
  /\ last = [op |-> "init"]
  /\ accepted = {}
  /\ created = NoneCreated
  /\ calls = 0
  /\ ex = Exporter_new

ExHeader ==
  /\ ex.pc = "start"
  /\ ex' = run_header(ex, env)
  /\ UNCHANGED <<env, last, accepted, created, calls>>

ExTerm ==
  /\ ex.pc = "terms" /\ ex.i < Len(env.terms)
  /\ ex' = run_term(ex, env)
  /\ UNCHANGED <<env, last, accepted, created, calls>>

ExTermsDone ==
  /\ ex.pc = "terms" /\ ex.i = Len(env.terms)
  /\ ex' = run_terms_done(ex, env)
  /\ UNCHANGED <<env, last, accepted, created, calls>>

ExThm ==
  /\ ex.pc = "thms" /\ ex.i < Len(env.thms)
  /\ ex' = run_thm(ex, env)
  /\ UNCHANGED <<env, last, accepted, created, calls>>

ExThmsDone ==
  /\ ex.pc = "thms" /\ ex.i = Len(env.thms)
  /\ ex' = run_thms_done(ex)
  /\ UNCHANGED <<env, last, accepted, created, calls>>

ExStmt ==
  /\ ex.pc = "proof" /\ ex.i < Len(env.stmts)
  /\ ex' = run_stmt(ex, env)
  /\ UNCHANGED <<env, last, accepted, created, calls>>

ExFinish ==
  /\ ex.pc = "proof" /\ ex.i = Len(env.stmts)
  /\ ex' = run_finish(ex)
  /\ UNCHANGED <<env, last, accepted, created, calls>>

NextExport ==
  ExHeader \/ ExTerm \/ ExTermsDone \/ ExThm \/ ExThmsDone \/ ExStmt \/ ExFinish

SpecExport == InitExport /\ [][NextExport]_vars

\* the bytes a seek-and-write of the fixup value v puts into the sink
ValueBytes(v) ==
  IF v.kind = "U32" THEN LE(v.val, 4)
  ELSE IF v.kind = "U64" THEN LE(v.val, 8)
  ELSE v.box

\* the sink out holds the value of the fixup f at the position of f
FixupApplied(out, f) ==
  SubSeq(out, f.at + 1, f.at + Len(ValueBytes(f.val))) = ValueBytes(f.val)

(* C3: after a successful run every recorded fixup is in the sink: bytes    *)
(* 16..20, 20..24 and 24..32 hold the offsets of the term table, of the     *)
(* theorem table and of the proof section, and the 8-byte header of each    *)
(* term and theorem holds its nargs, its sort/definition byte and the       *)
(* offset of its body.                                                      *)
C3_FixupsApplied ==
  ex.pc = "done" =>
    /\ \A i \in 1..Len(ex.fixups) : FixupApplied(ex.out, ex.fixups[i])
    /\ SubSeq(ex.out, 17, 20) = LE(ex.term_header.at, 4)
    /\ SubSeq(ex.out, 21, 24) = LE(ex.thm_header.at, 4)
    /\ \A i \in 1..Len(ex.fixups) :
         ex.fixups[i].at = ex.p_proof => SubSeq(ex.out, 25, 32) = LE(ex.fixups[i].val.val, 8)
    /\ \A t \in 1..Len(env.terms) :
         LET at == ex.term_header.at + 8 * (t - 1)
         IN /\ SubSeq(ex.out, at + 1, at + 2) = LE(Len(env.terms[t].args), 2)
            /\ ex.out[at + 3] = BitOr(env.terms[t].ret[1],
                                      IF env.terms[t].val # None THEN 128 ELSE 0)
            /\ SubSeq(ex.out, at + 5, at + 8) # LE(0, 4)
    /\ \A t \in 1..Len(env.thms) :
         LET at == ex.thm_header.at + 8 * (t - 1)
         IN /\ SubSeq(ex.out, at + 1, at + 2) = LE(Len(env.thms[t].args), 2)
            /\ SubSeq(ex.out, at + 5, at + 8) # LE(0, 4)


-----------------------------------------------------------------------------
(* Claims about the provable projection and failed coercions                *)

\* the pairs (a, b) with coes[a][b] present
TableEdges(coes) == {<<a, b>> \in (DOMAIN coes) \X UNION {DOMAIN coes[a] : a \in DOMAIN coes} :
                       HasCoe(coes, a, b)}

\* the provable sorts of e reachable from s through the coercions of e
ProvableFrom(e, s) ==
  {p \in ReachPlus(TableEdges(e.pe.coes), s) : ModContains(e.sorts[p + 1].mods, PROVABLE)}

(* C11: after a successful add_coe, coe_prov[s] is defined exactly when one *)
(* provable sort is reachable from s through coercions, and it is that      *)
(* sort; no sort reaches two provable sorts, since that makes add_coe fail. *)
C11_ProvableProjection ==
  (last.op = "add_coe" /\ last.err = None) =>
    \A s \in SortIds(env) :
      /\ s \in DOMAIN env.pe.coe_prov <=> Cardinality(ProvableFrom(env, s)) = 1
      /\ s \in DOMAIN env.pe.coe_prov => env.pe.coe_prov[s] \in ProvableFrom(env, s)
      /\ Cardinality(ProvableFrom(env, s)) <= 1

-----------------------------------------------------------------------------
(* The parser specification: a primary environment registers delimiters,   *)
(* constants, precedences, notations, atoms, sorts, coercions and a term,  *)
(* and a secondary environment that carries the same kinds of data is      *)
(* merged into it                                                          *)

\* ParserEnv::add_delimiters
add_delimiters(pe, ls, rs) ==
  [pe EXCEPT !.delims_l = @ \cup Range(ls), !.delims_r = @ \cup Range(rs)]

MaxPeSorts == 2

MaxPeMerges == 1

PeSortNames == <<"a", "b", "c">>

PeSortMods == <<0, PROVABLE, PROVABLE>>

\* the term f(x : a) : a and the axiom f about x : a
PeTerm(span) == Term(span, 0, span, <<(<<"x", TyBound(0)>>)>>, TyReg(0, 1), None)

PeThm(span) == Thm(span, 0, span, <<(<<"x", TyBound(0)>>)>>, <<>>, <<>>, ERef(0), None)

PeNota(span) == NotaInfo(span, 0, 1, None, <<>>)

\* the calls that build a secondary environment
PeSort(e, s, sd) == add_sort(e, s, 1, sd).env

PeDecl(e, t) == add_term(e, "f", t.span, t).env

PeCoe(e, s1, s2) == add_coe(e, s1, s2, 1, 0, <<>>, <<>>).env

PeParser(e, ls, rs, p, r, nspan) ==
  [e EXCEPT !.pe = add_prefix(add_prec_assoc(add_const(add_delimiters(@, ls, rs), "+", 1, p).pe,
                                             1, 1, r).pe, "-", PeNota(nspan)).pe]

\* sorts b, a in the other order, the term f, the coercion a -> b, the
\* parser data of a primary and the atom y
PeSecondarySwapped ==
  get_atom(PeParser(PeCoe(PeDecl(PeSort(PeSort(DefaultEnvironment, "b", PROVABLE), "a", 0), PeTerm(1)),
                          1, 0),
                    <<91>>, <<93>>, 1, TRUE, 1), "y").env

\* every table disagrees with the primary's: a with other modifiers, f with
\* another span, + with another precedence, level 1 with the other
\* associativity, - with another span, and the coercion b -> a
PeSecondaryClash ==
  PeParser(PeCoe(PeDecl(PeSort(PeSort(DefaultEnvironment, "a", PROVABLE), "b", PROVABLE), PeTerm(2)),
                 1, 0),
           <<91>>, <<93>>, 2, FALSE, 2)

\* f is a theorem
PeSecondaryFatal ==
  PeParser(add_thm(PeSort(DefaultEnvironment, "a", 0), "f", 1, PeThm(1)).env,
           <<91>>, <<93>>, 2, FALSE, 2)

\* the sorts a and c with the coercion a -> c to a second provable sort
PeSecondaryProv ==
  PeCoe(PeSort(PeSort(DefaultEnvironment, "a", 0), "c", PROVABLE), 0, 1)

PeSecondaries == {PeSecondarySwapped, PeSecondaryClash, PeSecondaryFatal, PeSecondaryProv}

InitPe ==
  /\ env = DefaultEnvironment
  /\ last = [op |-> "init"]
  /\ accepted = {}
  /\ created = NoneCreated
  /\ calls = 0
  /\ ex = ExIdle

PeCall(op) == [op |-> op, pre |-> env]

PeAddSort ==
  /\ Len(env.sorts) < MaxPeSorts
  /\ env' = add_sort(env, PeSortNames[Len(env.sorts) + 1], 1, PeSortMods[Len(env.sorts) + 1]).env
  /\ last' = PeCall("add_sort")
  /\ UNCHANGED <<accepted, created, calls, ex>>

PeAddTerm ==
  /\ env.sorts # <<>>
  /\ "f" \notin DOMAIN env.decl_keys
  /\ env' = add_term(env, "f", 1, PeTerm(1)).env
  /\ last' = PeCall("add_term")
  /\ UNCHANGED <<accepted, created, calls, ex>>

PeAddCoe ==
  /\ env.pe.coes = EmptyMap
  /\ \E s1 \in SortIds(env), s2 \in SortIds(env) :
       LET r == add_coe(env, s1, s2, 1, 0, <<>>, <<>>)
       IN /\ r.err = None
          /\ env' = r.env
  /\ last' = PeCall("add_coe")
  /\ UNCHANGED <<accepted, created, calls, ex>>

PeAddDelimiters ==
  /\ env.pe.delims_l = {}
  /\ env' = [env EXCEPT !.pe = add_delimiters(@, <<40>>, <<41>>)]
  /\ last' = PeCall("add_delimiters")
  /\ UNCHANGED <<accepted, created, calls, ex>>

PeAddConst ==
  /\ "+" \notin DOMAIN env.pe.consts
  /\ env' = [env EXCEPT !.pe = add_const(@, "+", 1, 1).pe]
  /\ last' = PeCall("add_const")
  /\ UNCHANGED <<accepted, created, calls, ex>>

PeAddPrecAssoc ==
  /\ 1 \notin DOMAIN env.pe.prec_assoc
  /\ env' = [env EXCEPT !.pe = add_prec_assoc(@, 1, 1, TRUE).pe]
  /\ last' = PeCall("add_prec_assoc")
  /\ UNCHANGED <<accepted, created, calls, ex>>

PeAddPrefix ==
  /\ "-" \notin DOMAIN env.pe.prefixes
  /\ env' = [env EXCEPT !.pe = add_prefix(@, "-", PeNota(1)).pe]
  /\ last' = PeCall("add_prefix")
  /\ UNCHANGED <<accepted, created, calls, ex>>

PeGetAtom ==
  /\ "x" \notin DOMAIN env.atoms
  /\ env' = get_atom(env, "x").env
  /\ last' = PeCall("get_atom")
  /\ UNCHANGED <<accepted, created, calls, ex>>

PeMerge ==
  /\ calls < MaxPeMerges
  /\ calls' = calls + 1
  /\ \E other \in PeSecondaries :
       \E m \in merge_outcomes(env, other, <<>>) :
         /\ env' = m.env
         /\ last' = [op |-> "merge", pre |-> env, other |-> other, remap |-> m.remap,
                     errors |-> m.errors, err |-> m.err]
  /\ UNCHANGED <<accepted, created, ex>>

NextPe ==
  \/ PeAddSort \/ PeAddTerm \/ PeAddCoe \/ PeAddDelimiters \/ PeAddConst
  \/ PeAddPrecAssoc \/ PeAddPrefix \/ PeGetAtom \/ PeMerge

SpecPe == InitPe /\ [][NextPe]_vars

-----------------------------------------------------------------------------
(* Claims about the diagnostics and the frame of merge                     *)

\* the diagnostics of one kind that the last merge appended, and what they
\* are about
Diags(kinds) == SelectSeq(last.errors, LAMBDA d : d.kind \in kinds)

DiagsAbout(kinds) == {Diags(kinds)[i].what : i \in 1..Len(Diags(kinds))}

\* exactly one diagnostic of these kinds for each member of conflicts
OnePer(kinds, conflicts) ==
  DiagsAbout(kinds) = conflicts /\ Len(Diags(kinds)) = Cardinality(conflicts)

\* the names and keys that both sides of the last merge hold
Both(f, g) == (DOMAIN f) \cap (DOMAIN g)

SortConflicts ==
  {s \in Both(last.pre.sort_keys, last.other.sort_keys) :
     last.pre.sorts[last.pre.sort_keys[s] + 1].mods # last.other.sorts[last.other.sort_keys[s] + 1].mods}

DeclConflicts ==
  {s \in Both(last.pre.decl_keys, last.other.decl_keys) :
     /\ last.pre.decl_keys[s].tag = last.other.decl_keys[s].tag
     /\ DeclRecord(last.pre, last.pre.decl_keys[s]).span # DeclRecord(last.other, last.other.decl_keys[s]).span}

FatalConflicts ==
  {s \in Both(last.pre.decl_keys, last.other.decl_keys) :
     last.pre.decl_keys[s].tag # last.other.decl_keys[s].tag}

ConstConflicts ==
  {tk \in Both(last.pre.pe.consts, last.other.pe.consts) :
     last.pre.pe.consts[tk].prec # last.other.pe.consts[tk].prec}

PrecConflicts ==
  {p \in Both(last.pre.pe.prec_assoc, last.other.pe.prec_assoc) :
     last.pre.pe.prec_assoc[p].r # last.other.pe.prec_assoc[p].r}

NotaConflicts ==
  {tk \in Both(last.pre.pe.prefixes, last.other.pe.prefixes) :
     last.pre.pe.prefixes[tk].span # last.other.pe.prefixes[tk].span}
  \cup
  {tk \in Both(last.pre.pe.infixes, last.other.pe.infixes) :
     last.pre.pe.infixes[tk].span # last.other.pe.infixes[tk].span}

(* C12: merge returns an error exactly when a name is a term on one side   *)
(* and a theorem on the other (no table is full within the bounds), and    *)
(* then the parser tables are as before; otherwise it returns success and  *)
(* the error list holds exactly one diagnostic for each sort redeclared    *)
(* with other modifiers, each term or theorem redeclared with another      *)
(* span, each constant, precedence level and notation that disagrees, at   *)
(* most one for each direct coercion of the secondary and at most one      *)
(* provable diamond, while the redeclared names keep the primary's ids and *)
(* every statement of the secondary is bound afterwards.                   *)
C12_MergeDiagnostics ==
  last.op = "merge" =>
    /\ last.err = None <=> FatalConflicts = {}
    /\ last.err # None => env.pe = last.pre.pe
    /\ last.err = None =>
         /\ OnePer({"sort redeclared"}, SortConflicts)
         /\ OnePer({"redeclared"}, DeclConflicts)
         /\ OnePer({"constant declared with two precedences"}, ConstConflicts)
         /\ OnePer({"incompatible associativity"}, PrecConflicts)
         /\ OnePer({"constant declared twice"}, NotaConflicts)
         /\ Len(Diags({"coercion"})) <= Cardinality(DirectCoes(last.other.pe.coes))
         /\ Len(Diags({"provable diamond"})) <= 1
         /\ Len(last.errors) = Cardinality(SortConflicts) + Cardinality(DeclConflicts)
                                 + Cardinality(ConstConflicts) + Cardinality(PrecConflicts)
                                 + Cardinality(NotaConflicts) + Len(Diags({"coercion"}))
                                 + Len(Diags({"provable diamond"}))
         /\ \A s \in SortConflicts :
              remap_sort_id(last.remap, last.other.sort_keys[s]) = last.pre.sort_keys[s]
         /\ \A s \in DeclConflicts :
              RemapKey(last.remap, last.other.decl_keys[s]) = last.pre.decl_keys[s]
         /\ DOMAIN last.other.sort_keys \subseteq DOMAIN env.sort_keys
         /\ DOMAIN last.other.decl_keys \subseteq DOMAIN env.decl_keys

\* the same statement for merges into a primary that has statements
C12_NonEmptyPrimary == (last.op = "merge" /\ last.pre.stmts = <<>>) \/ C12_MergeDiagnostics

\* the direct coercions of the secondary of the last merge, between the
\* primary's sorts of the same names
RemappedCoes ==
  {<<remap_sort_id(last.remap, p[1]), remap_sort_id(last.remap, p[2])>> :
     p \in DirectCoes(last.other.pe.coes)}

(* C17: after a successful merge into a primary that has statements, every *)
(* direct coercion s1 -> s2 of the secondary is in the primary's table     *)
(* from R(s1) to R(s2), R being the sort remapping of the merge (unless a  *)
(* coercion diagnostic was appended), and every direct coercion the        *)
(* primary has gained is one of these.                                     *)
C17_CoercionsRemapped ==
  MergeDone =>
    /\ Diags({"coercion"}) = <<>> =>
         \A q \in RemappedCoes : HasCoe(env.pe.coes, q[1], q[2])
    /\ DirectCoes(env.pe.coes) \ DirectCoes(last.pre.pe.coes) \subseteq RemappedCoes

(* C19: merge loses nothing the primary held: whatever the primary holds   *)
(* before the call, statements or not, its delimiters, constants,          *)
(* precedence levels and atoms are still there afterwards, and after a     *)
(* successful merge the delimiter sets are the unions of both sides.       *)
C19_MergeKeepsPrimary ==
  last.op = "merge" =>
    /\ last.pre.pe.delims_l \subseteq env.pe.delims_l
    /\ last.pre.pe.delims_r \subseteq env.pe.delims_r
    /\ DOMAIN last.pre.pe.consts \subseteq DOMAIN env.pe.consts
    /\ DOMAIN last.pre.pe.prec_assoc \subseteq DOMAIN env.pe.prec_assoc
    /\ DOMAIN last.pre.atoms \subseteq DOMAIN env.atoms
    /\ last.err = None =>
         /\ env.pe.delims_l = last.pre.pe.delims_l \cup last.other.pe.delims_l
         /\ env.pe.delims_r = last.pre.pe.delims_r \cup last.other.pe.delims_r

\* the same statement for merges into a primary that has statements
C19_NonEmptyPrimary == (last.op = "merge" /\ last.pre.stmts = <<>>) \/ C19_MergeKeepsPrimary

(* C18: an add_coe call that fails leaves the coercion table and the       *)
(* provable projection exactly as they were before the call.               *)
C18_FailedAddCoeFrame ==
  (last.op = "add_coe" /\ last.err # None) =>
    /\ env.pe.coes = last.pre.pe.coes
    /\ env.pe.coe_prov = last.pre.pe.coe_prov

-----------------------------------------------------------------------------
(* The linearizer specification: write_expr_unify and write_expr_proof run *)
(* one match arm at a time over the value of one declaration               *)

MaxLinArgs == 1

MaxHeap == 3

\* the nodes a heap slot or a head may hold when n slots precede it: they
\* refer to earlier slots only
LinNodes(n) ==
  {EDummy("d", 0)} \cup {ERef(j) : j \in 0..(n - 1)}
  \cup {EApp(2, <<ERef(j), ERef(k)>>) : j \in 0..(n - 1), k \in 0..(n - 1)}

\* the heaps of len slots whose first nargs slots are the parameters
RECURSIVE LinHeaps(_, _)
LinHeaps(nargs, len) ==
  IF len = 0 THEN {<<>>}
  ELSE {Append(h, x) : h \in LinHeaps(nargs, len - 1),
                       x \in IF len <= nargs THEN {ERef(len - 1)} ELSE LinNodes(len - 1)}

LinDecls ==
  UNION {UNION {{[nargs |-> nargs, heap |-> heap, head |-> head] :
                   heap \in LinHeaps(nargs, len), head \in LinNodes(len)} :
                len \in nargs..MaxHeap} : nargs \in 0..MaxLinArgs}

\* the state of one linearizer call: the declaration, the buffer w, the
\* Reorder, the pending save list, the call stack and the last return value
\* n; bodies lists the heap slots whose body has been entered
LinStart(pc, d) ==
  [pc |-> pc, nargs |-> d.nargs, heap |-> d.heap, head |-> d.head,
   w |-> <<>>, reorder |-> Reorder_new(d.nargs, Len(d.heap)), save |-> <<>>,
   stack |-> <<(IF pc = "unify" THEN d.head ELSE [k |-> "visit", node |-> d.head, save |-> FALSE])>>,
   n |-> 0, bodies |-> <<>>]

\* one match arm of write_expr_unify; the stack holds the nodes still to be
\* written, the next one first
unify_step(e) ==
  LET head == Head(e.stack)
      rest == Tail(e.stack)
  IN CASE head.tag = "Ref" ->
            IF e.reorder.map[head.i + 1] = None
            THEN [e EXCEPT !.save = Append(@, head.i),
                           !.stack = <<e.heap[head.i + 1]>> \o rest,
                           !.bodies = Append(@, head.i)]
            ELSE [commit(e, e.reorder.map[head.i + 1][1]) EXCEPT !.stack = rest]
       [] head.tag = "Dummy" ->
            [commit(e, e.reorder.idx) EXCEPT !.reorder.idx = @ + 1,
                                             !.w = @ \o write_cmd(UNIFY_DUMMY, head.sort),
                                             !.stack = rest]
       [] head.tag = "App" ->
            IF e.save = <<>>
            THEN [e EXCEPT !.w = @ \o write_cmd(UNIFY_TERM, head.t), !.stack = head.es \o rest]
            ELSE [commit(e, e.reorder.idx) EXCEPT !.reorder.idx = @ + 1,
                                                  !.w = @ \o write_cmd(UNIFY_TERM_SAVE, head.t),
                                                  !.stack = head.es \o rest]

\* one match arm of write_expr_proof, or the rest of an arm after the calls
\* it made have returned; the stack holds the calls to make ("visit"), the
\* App arms waiting for their arguments ("app") and the Ref arms waiting for
\* the slot's value ("ref")
proof_step(e) ==
  LET f == Head(e.stack)
      rest == Tail(e.stack)
      Save(x, cmd) == [x EXCEPT !.w = @ \o cmd, !.n = e.reorder.idx, !.reorder.idx = @ + 1,
                                !.stack = rest]
  IN CASE f.k = "visit" /\ f.node.tag = "Ref" ->
            IF e.reorder.map[f.node.i + 1] = None
            THEN [e EXCEPT !.stack = <<[k |-> "visit", node |-> e.heap[f.node.i + 1], save |-> TRUE],
                                       [k |-> "ref", i |-> f.node.i]>> \o rest,
                           !.bodies = Append(@, f.node.i)]
            ELSE LET n == e.reorder.map[f.node.i + 1][1]
                 IN [e EXCEPT !.w = @ \o write_cmd(PROOF_REF, n), !.n = n, !.stack = rest]
       [] f.k = "visit" /\ f.node.tag = "Dummy" -> Save(e, write_cmd(PROOF_DUMMY, f.node.sort))
       [] f.k = "visit" /\ f.node.tag = "App" ->
            [e EXCEPT !.stack = [i \in 1..Len(f.node.es) |->
                                   [k |-> "visit", node |-> f.node.es[i], save |-> FALSE]]
                                \o <<[k |-> "app", t |-> f.node.t, save |-> f.save]>> \o rest]
       [] f.k = "app" ->
            IF f.save THEN Save(e, write_cmd(PROOF_TERM_SAVE, f.t))
            ELSE [e EXCEPT !.w = @ \o write_cmd(PROOF_TERM, f.t), !.n = 0, !.stack = rest]
       [] f.k = "ref" -> [e EXCEPT !.reorder.map[f.i + 1] = Some(e.n), !.stack = rest]

InitLin ==
  /\ env = DefaultEnvironment
  /\ last = [op |-> "init"]
  /\ accepted = {}
  /\ created = NoneCreated
  /\ calls = 0
  /\ ex \in {LinStart(pc, d) : pc \in {"unify", "proof"}, d \in LinDecls}

LinUnify ==
  /\ ex.pc = "unify" /\ ex.stack # <<>>
  /\ ex' = unify_step(ex)
  /\ UNCHANGED <<env, last, accepted, created, calls>>

LinProof ==
  /\ ex.pc = "proof" /\ ex.stack # <<>>
  /\ ex' = proof_step(ex)
  /\ UNCHANGED <<env, last, accepted, created, calls>>

\* run: the call has returned and the terminator is written
LinReturn ==
  /\ ex.pc \in {"unify", "proof"} /\ ex.stack = <<>>
  /\ ex' = [ex EXCEPT !.w = @ \o <<0>>, !.pc = IF @ = "unify" THEN "unified" ELSE "proved"]
  /\ UNCHANGED <<env, last, accepted, created, calls>>

NextLin == LinUnify \/ LinProof \/ LinReturn

SpecLin == InitLin /\ [][NextLin]_vars

\* the stepwise runs end with what the recursive write_expr_unify and
\* write_expr_proof return
LinAgrees ==
  /\ ex.pc = "unified" =>
       LET st == write_expr_unify([w |-> <<>>, reorder |-> Reorder_new(ex.nargs, Len(ex.heap)),
                                   save |-> <<>>], ex.heap, ex.head)
       IN ex.w = st.w \o <<0>> /\ ex.reorder = st.reorder /\ ex.save = st.save
  /\ ex.pc = "proved" =>
       LET st == write_expr_proof([w |-> <<>>, reorder |-> Reorder_new(ex.nargs, Len(ex.heap)),
                                   n |-> 0], ex.heap, ex.head, FALSE)
       IN ex.w = st.w \o <<0>> /\ ex.reorder = st.reorder /\ ex.n = st.n

-----------------------------------------------------------------------------
(* Claims about the linearizers                                            *)

UNIFY_REF == 50

\* foo x = app(bar, x, x): one parameter, bar is term 2
ScenarioS4 ==
  /\ ex.nargs = 1
  /\ ex.heap = <<ERef(0)>>
  /\ ex.head = EApp(2, <<ERef(0), ERef(0)>>)

(* C13: for the definition foo x = app(bar, x, x) of scenario S4 the unify *)
(* stream of the header is Term(bar), Ref(0), Ref(0) and the terminator 0, *)
(* and afterwards idx = nargs and no heap slot beyond the parameter has a  *)
(* back-reference.                                                         *)
C13_ScenarioS4Stream ==
  (ScenarioS4 /\ ex.pc = "unified") =>
    /\ ex.w = write_cmd(UNIFY_TERM, 2) \o write_cmd(UNIFY_REF, 0) \o write_cmd(UNIFY_REF, 0) \o <<0>>
    /\ ex.reorder.idx = ex.nargs
    /\ \A i \in DOMAIN ex.reorder.map : i > ex.nargs => ex.reorder.map[i] = None

\* the part of scenario S4 that is about the Reorder
C13_ScenarioS4Reorder ==
  (ScenarioS4 /\ ex.pc = "unified") =>
    /\ ex.w = write_cmd(UNIFY_TERM, 2) \o <<0>>
    /\ ex.reorder = Reorder_new(ex.nargs, Len(ex.heap))

\* the number of places of node that refer to heap slot i
RECURSIVE Occurrences(_, _)
RECURSIVE OccurrencesAll(_, _, _)
Occurrences(node, i) ==
  CASE node.tag = "Ref" -> IF node.i = i THEN 1 ELSE 0
    [] node.tag = "App" -> OccurrencesAll(node.es, i, 1)
    [] OTHER -> 0

OccurrencesAll(es, i, k) ==
  IF k > Len(es) THEN 0 ELSE Occurrences(es[k], i) + OccurrencesAll(es, i, k + 1)

\* the places of the declaration that refer to slot i: the head and the
\* slots after the parameters
RefCount(e, i) ==
  Occurrences(e.head, i)
    + OccurrencesAll(SubSeq(e.heap, e.nargs + 1, Len(e.heap)), i, 1)

\* the heap slots that the traversal from the head reaches
RECURSIVE Reached(_, _)
Reached(e, node) ==
  CASE node.tag = "Ref" -> {node.i} \cup Reached(e, IF node.i < e.nargs THEN EDummy("d", 0) ELSE e.heap[node.i + 1])
    [] node.tag = "App" -> UNION {Reached(e, node.es[k]) : k \in 1..Len(node.es)}
    [] OTHER -> {}

\* every slot after the parameters is part of the expression
NoUnusedSlot(e) == \A i \in e.nargs..(Len(e.heap) - 1) : i \in Reached(e, e.head)

(* C14: when write_expr_unify has linearized a declaration all of whose    *)
(* slots are in use, a heap slot after the parameters has a back-reference *)
(* exactly when two or more places refer to it, and parameter i still has  *)
(* back-reference i.                                                       *)
C14_SharedSlotsOnly ==
  (ex.pc = "unified" /\ NoUnusedSlot(ex)) =>
    /\ \A i \in ex.nargs..(Len(ex.heap) - 1) :
         ex.reorder.map[i + 1] # None <=> RefCount(ex, i) >= 2
    /\ \A i \in 0..(ex.nargs - 1) : ex.reorder.map[i + 1] = Some(i)

(* C14, amended: when write_expr_unify has linearized a declaration, a     *)
(* heap slot after the parameters has a back-reference exactly when the    *)
(* expression refers to it, from one place or from several, and parameter  *)
(* i still has back-reference i.                                           *)
C14_ReachedSlots ==
  ex.pc = "unified" =>
    /\ \A i \in ex.nargs..(Len(ex.heap) - 1) :
         ex.reorder.map[i + 1] # None <=> i \in Reached(ex, ex.head)
    /\ \A i \in 0..(ex.nargs - 1) : ex.reorder.map[i + 1] = Some(i)

\* a slot that one place refers to and a slot that two places refer to have
\* both been given a back-reference, and an unused slot has none
C14_Witness ==
  /\ ex.pc = "unified"
  /\ \E i \in ex.nargs..(Len(ex.heap) - 1), j \in ex.nargs..(Len(ex.heap) - 1), k \in ex.nargs..(Len(ex.heap) - 1) :
       /\ RefCount(ex, i) = 1 /\ ex.reorder.map[i + 1] # None
       /\ RefCount(ex, j) >= 2 /\ ex.reorder.map[j + 1] # None
       /\ k \notin Reached(ex, ex.head) /\ ex.reorder.map[k + 1] = None

\* a reader of the stream w from byte i on: the number of bytes that follow
\* the opcode at i, the value they hold, and the opcode itself
DataSize(b) == IF b \div DATA_8 = 0 THEN 0 ELSE IF b \div DATA_8 = 3 THEN 4 ELSE b \div DATA_8

RECURSIVE DataValue(_, _, _)
DataValue(w, i, k) == IF k = 0 THEN 0 ELSE w[i + 1] + 256 * DataValue(w, i + 1, k - 1)

Opcode(b) == b % DATA_8

SaveOpcodes == {UNIFY_TERM_SAVE, UNIFY_DUMMY, PROOF_TERM_SAVE, PROOF_DUMMY}

\* the number of TermSave and Dummy opcodes of w from byte i on
RECURSIVE SavesIn(_, _)
SavesIn(w, i) ==
  IF i > Len(w) THEN 0
  ELSE (IF Opcode(w[i]) \in SaveOpcodes THEN 1 ELSE 0) + SavesIn(w, i + 1 + DataSize(w[i]))

\* a reader that holds held values when it comes to byte i has a value at
\* every index that a Ref opcode of w names from there on
RECURSIVE RefsHeld(_, _, _)
RefsHeld(w, i, held) ==
  IF i > Len(w) THEN TRUE
  ELSE /\ Opcode(w[i]) \in {PROOF_REF, UNIFY_REF} => DataValue(w, i, DataSize(w[i])) < held
       /\ RefsHeld(w, i + 1 + DataSize(w[i]),
                   IF Opcode(w[i]) \in SaveOpcodes THEN held + 1 ELSE held)

NoDuplicates(q) == \A i \in DOMAIN q, j \in DOMAIN q : q[i] = q[j] => i = j

(* C20: at every point of write_expr_unify and of write_expr_proof,        *)
(* reorder.idx is nargs plus the number of TermSave and Dummy opcodes      *)
(* written so far, every back-reference in the map is below idx, no heap   *)
(* slot's body has been entered twice, and every Ref opcode written names  *)
(* an index at which a reader of the stream holds a value.                 *)
C20_ReorderDiscipline ==
  /\ ex.reorder.idx = ex.nargs + SavesIn(ex.w, 1)
  /\ \A i \in DOMAIN ex.reorder.map :
       ex.reorder.map[i] # None => ex.reorder.map[i][1] < ex.reorder.idx
  /\ NoDuplicates(ex.bodies)
  /\ RefsHeld(ex.w, 1, ex.nargs)

\* write_expr_proof has returned after it wrote two saving opcodes and a Ref
\* to a value saved by one of them, and a slot has been entered
C20_Witness ==
  /\ ex.pc = "proved"
  /\ SavesIn(ex.w, 1) >= 2
  /\ ex.bodies # <<>>
  /\ \E i \in 1..(Len(ex.w) - 1) :
       ex.w[i] = BitOr(PROOF_REF, DATA_8) /\ ex.w[i + 1] >= ex.nargs /\ ex.w[i + 1] < ex.reorder.idx

-----------------------------------------------------------------------------
(* Claims about the exported theorem streams and offsets                   *)

\* the unify streams of es one after the other with one Reorder, with
\* UnifyCmd::Hyp in front of every expression but the first
RECURSIVE UnifyInOrder(_, _, _, _)
UnifyInOrder(st, heap, es, i) ==
  IF i > Len(es) THEN st
  ELSE UnifyInOrder(write_expr_unify([st EXCEPT !.w = @ \o (IF i = 1 THEN <<>> ELSE <<UNIFY_HYP>>)],
                                     heap, es[i]),
                    heap, es, i + 1)

\* the target T, then the hypotheses hk down to h1
HeaderOrder(t) == <<t.ret>> \o [j \in 1..Len(t.hyps) |-> t.hyps[Len(t.hyps) + 1 - j][2]]

HeaderStream(t) ==
  UnifyInOrder([w |-> <<>>, reorder |-> Reorder_new(Len(t.args), Len(t.heap)), save |-> <<>>],
               t.heap, HeaderOrder(t), 1).w \o <<0>>

\* the expression streams of es one after the other with one Reorder, each
\* followed by ProofCmd::Hyp
RECURSIVE ProofInOrder(_, _, _, _)
ProofInOrder(st, heap, es, i) ==
  IF i > Len(es) THEN st
  ELSE LET r == write_expr_proof(st, heap, es[i], FALSE)
       IN ProofInOrder([r EXCEPT !.w = @ \o <<PROOF_HYP>>], heap, es, i + 1)

\* the statement of a theorem: the hypotheses h1 up to hk, each followed by
\* ProofCmd::Hyp, then the conclusion (of an axiom) or its proof, then end
StatementStream(td, end) ==
  IF td.proof = None
  THEN LET hs == ProofInOrder([w |-> <<>>, reorder |-> Reorder_new(Len(td.args), Len(td.heap)), n |-> 0],
                              td.heap, [j \in 1..Len(td.hyps) |-> td.hyps[j][2]], 1)
       IN write_expr_proof(hs, td.heap, td.ret, FALSE).w \o <<0>>
  ELSE LET p == td.proof[1][1]
           hs == proof_hyps([w |-> <<>>, reorder |-> Reorder_new(Len(td.args), Len(p.heap)),
                             n |-> 0, panic |-> None], p, <<>>, 1)
       IN write_proof(hs.st, p.heap, hs.ehyps, p.head, FALSE).w \o end

\* the exporter is about to write the header body of a theorem, or the
\* statement of a theorem, and does not panic
HeaderStep == ex.pc = "thms" /\ ex.i < Len(env.thms) /\ ex'.pc # "panic"

StatementStep ==
  /\ ex.pc = "proof" /\ ex.i < Len(env.stmts) /\ ex'.pc # "panic"
  /\ env.stmts[ex.i + 1].tag = "Decl"
  /\ env.data[env.stmts[ex.i + 1].a + 1].decl[1].tag = "Thm"

StatementThm == env.thms[env.data[env.stmts[ex.i + 1].a + 1].decl[1].id + 1]

EndsWith(out, from, s) ==
  Len(out) >= from + Len(s) /\ SubSeq(out, Len(out) - Len(s) + 1, Len(out)) = s

HeaderWritten == HeaderStep => EndsWith(ex'.out, Len(ex.out), HeaderStream(env.thms[ex.i + 1]))

StatementWritten(end) ==
  StatementStep =>
    ex'.out = ex.out \o write_cmd_bytes(IF StatementThm.proof = None THEN STMT_AXIOM
                                        ELSE StmtCmd(STMT_THM, StatementThm.vis),
                                        StatementStream(StatementThm, end))

(* C15: the header body of a theorem ends with the unify stream of its     *)
(* target, then UnifyCmd::Hyp and the unify stream of each hypothesis from *)
(* the last to the first, then 0x00; the statement of the theorem in the   *)
(* proof section holds the hypotheses from the first to the last, each     *)
(* followed by ProofCmd::Hyp, then the stream of the conclusion, then 0x00 *)
(* and nothing else.                                                       *)
C15_TheoremStreams == [][HeaderWritten /\ StatementWritten(<<0>>)]_vars

\* the same with a second 0x00 at the end of a theorem that has a proof
C15_SecondTerminator == [][HeaderWritten /\ StatementWritten(<<0, 0>>)]_vars

\* the values that the run has committed for the fixup at position at
Committed(at) == {ex.fixups[i].val : i \in {j \in 1..Len(ex.fixups) : ex.fixups[j].at = at}}

\* the number that the little-endian bytes b hold
RECURSIVE LEValue(_)
LEValue(b) == IF b = <<>> THEN 0 ELSE Head(b) + 256 * LEValue(Tail(b))

\* the p_term or p_thm field of entry t of a committed header table
HeaderOffset(table, t) == LEValue(SubSeq(table.box, 8 * (t - 1) + 5, 8 * (t - 1) + 8))

(* C16: after a successful run one value has been committed for each of    *)
(* p_terms, p_thms, p_proof, p_index and the two header tables; p_terms,   *)
(* p_thms and the p_term and p_thm of every term and theorem are multiples *)
(* of 8, every p_term and p_thm is below the length of the output,         *)
(* p_terms <= p_thms <= p_proof, the last byte of the output is 0x00 and   *)
(* the value committed for p_index is 0.                                   *)
C16_Offsets ==
  ex.pc = "done" =>
    \E p_terms \in Committed(16), p_thms \in Committed(ex.p_thms), p_proof \in Committed(ex.p_proof),
       p_index \in Committed(ex.p_index), terms \in Committed(ex.term_header.at),
       thms \in Committed(ex.thm_header.at) :
      /\ p_terms.val % 8 = 0 /\ p_thms.val % 8 = 0
      /\ terms.kind = "Box" /\ Len(terms.box) = 8 * Len(env.terms)
      /\ thms.kind = "Box" /\ Len(thms.box) = 8 * Len(env.thms)
      /\ \A t \in 1..Len(env.terms) :
           HeaderOffset(terms, t) % 8 = 0 /\ HeaderOffset(terms, t) < Len(ex.out)
      /\ \A t \in 1..Len(env.thms) :
           HeaderOffset(thms, t) % 8 = 0 /\ HeaderOffset(thms, t) < Len(ex.out)
      /\ p_terms.val <= p_thms.val /\ p_thms.val <= p_proof.val
      /\ ex.out[Len(ex.out)] = 0
      /\ p_index.val = 0

\* a finished export of an environment with a term and a theorem, in which
\* padding was written between the sort data and the term table
C16_Witness ==
  /\ ex.pc = "done"
  /\ env.terms # <<>> /\ env.thms # <<>>
  /\ \E v \in Committed(16) : v.val > ex.p_index + 8 + Len(env.sorts)

====
